---- MODULE Spec2Model ----
(***************************************************************************)
(* Model of the dingtalk-bot agent: the tool-call extractor and the tool   *)
(* dispatcher of agent_tools.py (DeepseekAgent), together with the draft   *)
(* extractor and Toolkit of Test.py, one request through process_request   *)
(* and process_input, and the webhook servers of main.py and app.py with   *)
(* their background tasks and the map processing_tasks; further the        *)
(* deleting methods of GoogleCalendarManager on a task list and a          *)
(* calendar, AgentMemory of Test.py, and send_official_message.            *)
(*                                                                         *)
(* Text is modelled as a sequence of lexical atoms.  A one-character atom  *)
(* is that character; the multi-character atoms are the fence "```", the   *)
(* words "json", "JSON", "action", "parameters".  Every string operation   *)
(* of the source (find, slicing, strip, split, startswith, endswith,       *)
(* json.loads) is computed on that sequence.                               *)
(***************************************************************************)
EXTENDS Integers, Sequences, FiniteSets, TLC

----------------------------------------------------------------------------
(* Lexical atoms *)

\* the fence marker, three backticks (a backtick cannot occur in a string literal)
FENCE == "fence"
QUOTE == "\""
WS == " "

\* "```json", the marker agent_tools.py searches for
FenceJson == <<FENCE, "json">>

\* atoms that stand for exactly one character
OneChar == {"{", "}", "[", "]", ":", ",", QUOTE, WS, "1", "x"}

\* atoms that stand for several characters
ManyChar == {FENCE, "json", "JSON", "action", "parameters"}

Atoms == OneChar \cup ManyChar

----------------------------------------------------------------------------
(* Python string primitives on atom sequences; positions are 0-based *)

\* s[i:] for 0 <= i
From(s, i) == SubSeq(s, i + 1, Len(s))

\* s.startswith(p)
StartsWith(s, p) == Len(s) >= Len(p) /\ SubSeq(s, 1, Len(p)) = p

\* s.endswith(p)
EndsWith(s, p) == Len(s) >= Len(p) /\ SubSeq(s, Len(s) - Len(p) + 1, Len(s)) = p

\* s.find(p, start): least position >= start where p occurs, else -1
Find(s, p, start) ==
  LET hits == {i \in start..(Len(s) - Len(p)) : SubSeq(s, i + 1, i + Len(p)) = p}
  IN IF hits = {} THEN -1 ELSE CHOOSE i \in hits : \A j \in hits : i <= j

\* p in s
Contains(s, p) == Find(s, p, 0) # -1

\* s[:-1] : the text without its last character.  Cutting the last
\* character off a multi-character atom leaves a word that is none of the
\* atoms with a meaning ("jso", "actio", "``"): the plain word "x".
DropLastChar(s) ==
  IF s = <<>> THEN <<>>
  ELSE IF s[Len(s)] \in OneChar THEN SubSeq(s, 1, Len(s) - 1)
  ELSE Append(SubSeq(s, 1, Len(s) - 1), "x")

\* s[start:end] as Python computes it for start >= 0 and end >= -1
Slice(s, start, end) ==
  IF end >= 0 THEN SubSeq(s, start + 1, end)
  ELSE DropLastChar(From(s, start))

RECURSIVE LStrip(_)
LStrip(s) == IF s # <<>> /\ Head(s) = WS THEN LStrip(Tail(s)) ELSE s

RECURSIVE RStrip(_)
RStrip(s) ==
  IF s # <<>> /\ s[Len(s)] = WS THEN RStrip(SubSeq(s, 1, Len(s) - 1)) ELSE s

\* s.strip()
Strip(s) == RStrip(LStrip(s))

\* s.lower() : the tag word and the letter A have an upper-case form in
\* the alphabet
Lower(s) ==
  [i \in 1..Len(s) |-> IF s[i] = "JSON" THEN "json"
                       ELSE IF s[i] = "A" THEN "a"
                       ELSE s[i]]

\* s.split("```") : the pieces between the fence markers, empty ones kept
RECURSIVE Split(_)
Split(s) ==
  LET i == Find(s, <<FENCE>>, 0)
  IN IF i = -1 THEN <<s>>
     ELSE <<SubSeq(s, 1, i)>> \o Split(From(s, i + 1))

----------------------------------------------------------------------------
(* json.loads on atom sequences.                                           *)
(* Values: [t |-> "num", v |-> n], [t |-> "str", v |-> atoms],             *)
(* [t |-> "arr", v |-> <<values>>], [t |-> "obj", v |-> [key -> value]].   *)

EmptyDict == << >>

NumV(n) == [t |-> "num", v |-> n]
StrV(s) == [t |-> "str", v |-> s]
ArrV(a) == [t |-> "arr", v |-> a]
ObjV(d) == [t |-> "obj", v |-> d]

ParseFail == [ok |-> FALSE, val |-> NumV(0), rest |-> <<>>]
ParseOk(v, r) == [ok |-> TRUE, val |-> v, rest |-> r]

\* a JSON string: quote, any atoms but a quote, quote (no escapes in the alphabet)
ParseString(s) ==
  IF s = <<>> \/ Head(s) # QUOTE THEN ParseFail
  ELSE LET close == Find(s, <<QUOTE>>, 1)
       IN IF close = -1 THEN ParseFail
          ELSE ParseOk(StrV(SubSeq(s, 2, close)), From(s, close + 1))

\* a JSON number: a maximal run of the digit 1
RECURSIVE ParseNumber(_, _)
ParseNumber(s, acc) ==
  IF s # <<>> /\ Head(s) = "1" THEN ParseNumber(Tail(s), 10 * acc + 1)
  ELSE ParseOk(NumV(acc), s)

RECURSIVE ParseValue(_)
RECURSIVE ParseMembers(_, _, _)
RECURSIVE ParseElements(_, _, _)

\* members of an object after "{": key ":" value ("," key ":" value)* "}"
ParseMembers(s, d, first) ==
  IF s = <<>> THEN ParseFail
  ELSE IF first /\ Head(s) = "}" THEN ParseOk(ObjV(d), Tail(s))
  ELSE LET k == ParseString(s)
           s2 == LStrip(k.rest)
       IN IF ~k.ok \/ s2 = <<>> \/ Head(s2) # ":" THEN ParseFail
          ELSE LET e == ParseValue(LStrip(Tail(s2)))
                   s3 == LStrip(e.rest)
                   d2 == (k.val.v :> e.val) @@ d
               IN IF ~e.ok \/ s3 = <<>> THEN ParseFail
                  ELSE IF Head(s3) = "}" THEN ParseOk(ObjV(d2), Tail(s3))
                  ELSE IF Head(s3) = "," THEN ParseMembers(LStrip(Tail(s3)), d2, FALSE)
                  ELSE ParseFail

\* elements of an array after "[": value ("," value)* "]"
ParseElements(s, a, first) ==
  IF s = <<>> THEN ParseFail
  ELSE IF first /\ Head(s) = "]" THEN ParseOk(ArrV(a), Tail(s))
  ELSE LET e == ParseValue(s)
           s3 == LStrip(e.rest)
       IN IF ~e.ok \/ s3 = <<>> THEN ParseFail
          ELSE IF Head(s3) = "]" THEN ParseOk(ArrV(Append(a, e.val)), Tail(s3))
          ELSE IF Head(s3) = "," THEN ParseElements(LStrip(Tail(s3)), Append(a, e.val), FALSE)
          ELSE ParseFail

ParseValue(s) ==
  IF s = <<>> THEN ParseFail
  ELSE IF Head(s) = "{" THEN ParseMembers(LStrip(Tail(s)), EmptyDict, TRUE)
  ELSE IF Head(s) = "[" THEN ParseElements(LStrip(Tail(s)), <<>>, TRUE)
  ELSE IF Head(s) = QUOTE THEN ParseString(s)
  ELSE IF Head(s) = "1" THEN ParseNumber(s, 0)
  ELSE ParseFail

None == [t |-> "None"]
Raise(e) == [t |-> "raise", v |-> e]

\* json.loads(s): the value, or JSONDecodeError
json_loads(s) ==
  LET r == ParseValue(LStrip(s))
  IN IF r.ok /\ LStrip(r.rest) = <<>> THEN r.val ELSE Raise("JSONDecodeError")

\* isinstance(v, dict) and "action" in v and "parameters" in v
IsDict(v) == v.t = "obj"
HasKey(v, k) == <<k>> \in DOMAIN v.v
\* fault: the parameters field is not asked for
IsInvocation_ActionOnly(v) == v.t = "obj" /\ <<"action">> \in DOMAIN v.v

IsInvocation(v) == IsDict(v) /\ HasKey(v, "action") /\ HasKey(v, "parameters")

----------------------------------------------------------------------------
(* DeepseekAgent.extract_tool_call of agent_tools.py *)

\* fault: the language tag is not skipped
extract_try_KeepTag(llm_response) ==
  LET start == Find(llm_response, FenceJson, 0) + 1
      end == Find(llm_response, <<FENCE>>, start)
      json_str == Strip(Slice(llm_response, start, end))
      tool_data == json_loads(json_str)
  IN IF tool_data.t = "raise" THEN tool_data
     ELSE IF IsInvocation(tool_data) THEN tool_data
     ELSE None

\* the body of the try block: the parsed value, None, or a raised exception
extract_try(llm_response) ==
  LET start == Find(llm_response, FenceJson, 0) + Len(FenceJson)
      end == Find(llm_response, <<FENCE>>, start)
      json_str == Strip(Slice(llm_response, start, end))
      tool_data == json_loads(json_str)
  IN IF tool_data.t = "raise" THEN tool_data
     ELSE IF IsInvocation(tool_data) THEN tool_data
     ELSE None

\* fault: no except clause, the exception leaves the function
extract_except_Uncaught(r) == r

\* except json.JSONDecodeError / except Exception: return None
extract_except(r) == IF r.t = "raise" THEN None ELSE r

\* fault: the test for the json fence is missing
extract_tool_call_Unguarded(llm_response) ==
  extract_except(extract_try(llm_response))

extract_tool_call(llm_response) ==
  IF Contains(llm_response, FenceJson) /\ Contains(llm_response, <<FENCE>>)
  THEN extract_except(extract_try(llm_response))
  ELSE None

----------------------------------------------------------------------------
(* DeepseekAgent.extract_tool_call of Test.py *)

\* parts = [p.strip() for p in llm_response.split(fence) if p.strip()]
RECURSIVE StripNonEmpty(_)
StripNonEmpty(ps) ==
  IF ps = <<>> THEN <<>>
  ELSE IF Strip(Head(ps)) = <<>> THEN StripNonEmpty(Tail(ps))
  ELSE <<Strip(Head(ps))>> \o StripNonEmpty(Tail(ps))

Parts(llm_response) == StripNonEmpty(Split(llm_response))

\* the for loop over parts: the candidate of the first part that starts
\* with the json tag or is shaped as an object; <<>> when there is none
RECURSIVE FirstCandidate(_)
FirstCandidate(parts) ==
  IF parts = <<>> THEN <<>>
  ELSE LET part == Head(parts)
       IN IF StartsWith(Lower(part), <<"json">>) THEN Strip(Tail(part))
          ELSE IF StartsWith(part, <<"{">>) /\ EndsWith(part, <<"}">>) THEN part
          ELSE FirstCandidate(Tail(parts))

\* tool_json after the two cases (fenced, bare); <<>> stands for None and ""
ToolJson(llm_response) ==
  IF Contains(llm_response, <<FENCE>>)
  THEN FirstCandidate(Parts(llm_response))
  ELSE LET clean_response == Strip(llm_response)
       IN IF StartsWith(clean_response, <<"{">>) /\ EndsWith(clean_response, <<"}">>)
          THEN clean_response
          ELSE <<>>

\* the try block of Test.py: json.loads, then the three field checks
test_extract_try(tool_json) ==
  LET tool_data == json_loads(tool_json)
  IN IF tool_data.t = "raise" THEN tool_data
     ELSE IF ~IsDict(tool_data) THEN None
     ELSE IF ~HasKey(tool_data, "action") THEN None
     ELSE IF ~HasKey(tool_data, "parameters") THEN None
     ELSE tool_data

\* fault: no except clause in the draft extractor
test_extract_except_Uncaught(r) == r

test_extract_except(r) == IF r.t = "raise" THEN None ELSE r

test_extract_tool_call(llm_response) ==
  IF llm_response = <<>> \/ Strip(llm_response) = <<>> THEN None
  ELSE IF ToolJson(llm_response) = <<>> THEN None
  ELSE test_extract_except(test_extract_try(ToolJson(llm_response)))

----------------------------------------------------------------------------
(* eval() on the characters calculator lets through.                       *)
(* Numbers are exact: [t |-> "int", n, d |-> 1] and [t |-> "float", n, d]  *)
(* with n/d in lowest terms; [t |-> "tuple"] is the empty tuple "()";      *)
(* [t |-> "ellipsis"] is the constant "..."; [t |-> "other"] is a number   *)
(* outside the computed range (magnitude above MaxMagnitude, an irrational *)
(* power, a floor division of floats).                                     *)

\* largest numerator or denominator eval results are computed for
MaxMagnitude == 30000

Digits == {"0", "1", "2", "3", "4", "5", "6", "7", "8", "9"}

DigitVal(c) ==
  CASE c = "0" -> 0 [] c = "1" -> 1 [] c = "2" -> 2 [] c = "3" -> 3 [] c = "4" -> 4
    [] c = "5" -> 5 [] c = "6" -> 6 [] c = "7" -> 7 [] c = "8" -> 8 [] c = "9" -> 9

Abs(n) == IF n < 0 THEN -n ELSE n

RECURSIVE Gcd(_, _)
Gcd(a, b) == IF b = 0 THEN a ELSE Gcd(b, a % b)

Other == [t |-> "other"]
Tuple == [t |-> "tuple"]
Ellipsis == [t |-> "ellipsis"]

\* the number n/d, d # 0, in lowest terms
Num(isFloat, n, d) ==
  IF Abs(n) > MaxMagnitude \/ Abs(d) > MaxMagnitude THEN Other
  ELSE LET g == Gcd(Abs(n), Abs(d))
           s == IF d < 0 THEN -1 ELSE 1
       IN [t |-> IF isFloat THEN "float" ELSE "int", n |-> (s * n) \div g, d |-> (s * d) \div g]

IntV(n) == Num(FALSE, n, 1)

IsNum(v) == v.t \in {"int", "float"}
IsRaise(v) == v.t = "raise"

\* the tokens of an expression: numbers and operators; "err" for a
\* literal the tokenizer rejects
NumTok(v) == [k |-> "num", s |-> "", v |-> v]
OpTok(s) == [k |-> "op", s |-> s, v |-> Other]
ErrTok == [k |-> "err", s |-> "", v |-> Other]

\* length of the maximal run of digits at the head of cs
RECURSIVE DigitRun(_)
DigitRun(cs) == IF cs # <<>> /\ Head(cs) \in Digits THEN 1 + DigitRun(Tail(cs)) ELSE 0

RECURSIVE DecimalValue(_, _)
DecimalValue(ds, acc) ==
  IF ds = <<>> THEN acc
  ELSE IF acc > MaxMagnitude THEN acc
  ELSE DecimalValue(Tail(ds), 10 * acc + DigitVal(Head(ds)))

RECURSIVE Pow10(_)
Pow10(k) == IF k = 0 THEN 1 ELSE IF k > 6 THEN 10 * MaxMagnitude ELSE 10 * Pow10(k - 1)

\* an integer literal may start with 0 only if it is all zeros
LeadingZero(ds) == Len(ds) > 1 /\ ds[1] = "0" /\ \E i \in 1..Len(ds) : ds[i] # "0"

RECURSIVE Lex(_)
Lex(cs) ==
  IF cs = <<>> THEN <<>>
  ELSE LET c == Head(cs)
       IN IF c = " " THEN Lex(Tail(cs))
          ELSE IF StartsWith(cs, <<".", ".", ".">>) THEN <<NumTok(Ellipsis)>> \o Lex(From(cs, 3))
          ELSE IF c \in Digits \/ c = "."
          THEN LET ni == DigitRun(cs)
                   ip == SubSeq(cs, 1, ni)
                   after == From(cs, ni)
                   dot == after # <<>> /\ Head(after) = "."
                   nf == IF dot THEN DigitRun(Tail(after)) ELSE 0
                   fp == IF dot THEN SubSeq(after, 2, nf + 1) ELSE <<>>
                   rest == IF dot THEN From(after, nf + 1) ELSE after
               IN IF dot /\ ni = 0 /\ nf = 0 THEN <<ErrTok>>
                  ELSE IF ~dot /\ LeadingZero(ip) THEN <<ErrTok>>
                  ELSE IF dot
                  THEN <<NumTok(Num(TRUE, DecimalValue(ip \o fp, 0), Pow10(nf)))>> \o Lex(rest)
                  ELSE <<NumTok(IntV(DecimalValue(ip, 0)))>> \o Lex(rest)
          ELSE IF c \in {"*", "/"} /\ Len(cs) > 1 /\ cs[2] = c
          THEN <<OpTok(c \o c)>> \o Lex(From(cs, 2))
          ELSE <<OpTok(c)>> \o Lex(Tail(cs))

----------------------------------------------------------------------------
(* arithmetic of eval *)

ZeroDivision == Raise("ZeroDivisionError")
TypeErr == Raise("TypeError")
SyntaxErr == Raise("SyntaxError")

EitherFloat(a, b) == a.t = "float" \/ b.t = "float"

Neg(a) ==
  IF IsRaise(a) THEN a
  ELSE IF a.t \in {"tuple", "ellipsis"} THEN TypeErr
  ELSE IF a.t = "other" THEN Other
  ELSE Num(a.t = "float", -a.n, a.d)

Pos(a) ==
  IF IsRaise(a) THEN a ELSE IF a.t \in {"tuple", "ellipsis"} THEN TypeErr ELSE a

\* a ** e for an integer e >= 0
RECURSIVE PowNat(_, _)
PowNat(a, e) ==
  IF e = 0 THEN Num(a.t = "float", 1, 1)
  ELSE LET r == PowNat(a, e - 1)
       IN IF r.t = "other" THEN Other ELSE Num(a.t = "float", r.n * a.n, r.d * a.d)

Power(a, b) ==
  IF a.t = "other" \/ b.t = "other" THEN Other
  ELSE IF b.d = 1 /\ b.n >= 0 THEN
         IF Abs(a.n) <= 1 /\ a.d = 1
         THEN Num(EitherFloat(a, b), IF a.n = 0 THEN (IF b.n = 0 THEN 1 ELSE 0)
                                     ELSE IF a.n = 1 \/ b.n % 2 = 0 THEN 1 ELSE -1, 1)
         ELSE IF b.n > 20 THEN Other
         ELSE LET r == PowNat(a, b.n)
              IN IF r.t = "other" THEN Other ELSE Num(EitherFloat(a, b), r.n, r.d)
  ELSE IF a.n = 0 THEN (IF b.n < 0 THEN ZeroDivision ELSE Num(TRUE, 0, 1))
  ELSE IF b.d = 1 THEN
         IF Abs(a.n) = 1 /\ a.d = 1
         THEN Num(TRUE, IF a.n = 1 \/ b.n % 2 = 0 THEN 1 ELSE -1, 1)
         ELSE IF -b.n > 20 THEN Other
         ELSE LET r == PowNat(a, -b.n)
              IN IF r.t = "other" THEN Other ELSE Num(TRUE, r.d, r.n)
  ELSE Other

\* a op b, both already evaluated, left operand first
BinOp(op, a, b) ==
  IF IsRaise(a) THEN a
  ELSE IF IsRaise(b) THEN b
  ELSE IF a.t = "ellipsis" \/ b.t = "ellipsis" THEN TypeErr
  ELSE IF a.t = "tuple" \/ b.t = "tuple" THEN
         IF op = "+" /\ a.t = "tuple" /\ b.t = "tuple" THEN Tuple
         ELSE IF op = "*" /\ (a.t = "int" \/ b.t = "int") THEN Tuple
         ELSE TypeErr
  ELSE IF op \in {"/", "//"} /\ b.t # "other" /\ b.n = 0 THEN ZeroDivision
  ELSE IF op = "**" THEN Power(a, b)
  ELSE IF a.t = "other" \/ b.t = "other" THEN Other
  ELSE IF op = "+" THEN Num(EitherFloat(a, b), a.n * b.d + b.n * a.d, a.d * b.d)
  ELSE IF op = "-" THEN Num(EitherFloat(a, b), a.n * b.d - b.n * a.d, a.d * b.d)
  ELSE IF op = "*" THEN Num(EitherFloat(a, b), a.n * b.n, a.d * b.d)
  ELSE IF op = "/" THEN Num(TRUE, a.n * b.d, a.d * b.n)
  ELSE IF op = "//" /\ EitherFloat(a, b) THEN Other
  ELSE IF op = "//" THEN
         LET q == IF b.n > 0 THEN (a.n * b.d) \div (a.d * b.n)
                  ELSE (-(a.n * b.d)) \div (a.d * (-b.n))
         IN Num(FALSE, q, 1)
  ELSE TypeErr

----------------------------------------------------------------------------
(* the expression grammar of eval:                                         *)
(*   arith: term (("+" | "-") term)*                                       *)
(*   term: factor (("*" | "/" | "//") factor)*                             *)
(*   factor: ("+" | "-") factor | power                                    *)
(*   power: primary ["**" factor]                                          *)
(*   primary: atom ("(" [["*" | "**"] arith] ")")*                         *)
(*   atom: NUMBER | "..." | "(" [arith] ")"                                *)
(* A parse gives [ok, val, rest]; val is the value or the exception the    *)
(* evaluation raises.                                                      *)

PyFail == [ok |-> FALSE, val |-> Other, rest |-> <<>>]
PyOk(v, r) == [ok |-> TRUE, val |-> v, rest |-> r]

IsOp(ts, ops) == ts # <<>> /\ Head(ts).k = "op" /\ Head(ts).s \in ops

\* fault: every binary operator binds alike, evaluation runs left to right
OpsAt_Flat(level) == IF level = 1 THEN {"+", "-", "*", "/", "//"} ELSE {}

\* the binary operators of a precedence level: 1 is arith, 2 is term
OpsAt(level) == IF level = 1 THEN {"+", "-"} ELSE {"*", "/", "//"}

RECURSIVE PyBinary(_, _)
RECURSIVE PyBinaryRest(_, _, _)
RECURSIVE PyFactor(_)
RECURSIVE PyPower(_)
RECURSIVE PyCalls(_, _)
RECURSIVE PyAtom(_)

\* an operand of a level: a term for arith, a factor for term
PyOperand(level, ts) == IF level = 1 THEN PyBinary(2, ts) ELSE PyFactor(ts)

PyBinary(level, ts) ==
  LET l == PyOperand(level, ts)
  IN IF ~l.ok THEN PyFail ELSE PyBinaryRest(level, l.val, l.rest)

PyBinaryRest(level, acc, ts) ==
  IF IsOp(ts, OpsAt(level))
  THEN LET r == PyOperand(level, Tail(ts))
       IN IF ~r.ok THEN PyFail
          ELSE PyBinaryRest(level, BinOp(Head(ts).s, acc, r.val), r.rest)
  ELSE PyOk(acc, ts)

PyFactor(ts) ==
  IF IsOp(ts, {"+", "-"})
  THEN LET f == PyFactor(Tail(ts))
       IN IF ~f.ok THEN PyFail
          ELSE PyOk(IF Head(ts).s = "-" THEN Neg(f.val) ELSE Pos(f.val), f.rest)
  ELSE PyPower(ts)

PyPower(ts) ==
  LET a == PyAtom(ts)
      p == IF a.ok THEN PyCalls(a.val, a.rest) ELSE PyFail
  IN IF ~p.ok THEN PyFail
     ELSE IF IsOp(p.rest, {"**"})
     THEN LET f == PyFactor(Tail(p.rest))
          IN IF ~f.ok THEN PyFail ELSE PyOk(BinOp("**", p.val, f.val), f.rest)
     ELSE p

\* trailing call brackets, with at most one argument, plain or unpacked
\* with "*" or "**": a number or a tuple is not callable
PyCalls(callee, ts) ==
  IF IsOp(ts, {"("})
  THEN IF IsOp(Tail(ts), {")"})
       THEN PyCalls(IF IsRaise(callee) THEN callee ELSE TypeErr, Tail(Tail(ts)))
       ELSE LET arg == PyBinary(1, IF IsOp(Tail(ts), {"*", "**"}) THEN Tail(Tail(ts))
                                   ELSE Tail(ts))
            IN IF ~arg.ok \/ ~IsOp(arg.rest, {")"}) THEN PyFail
               ELSE PyCalls(IF IsRaise(callee) THEN callee
                            ELSE IF IsRaise(arg.val) THEN arg.val ELSE TypeErr,
                            Tail(arg.rest))
  ELSE PyOk(callee, ts)

PyAtom(ts) ==
  IF ts = <<>> THEN PyFail
  ELSE IF Head(ts).k = "num" THEN PyOk(Head(ts).v, Tail(ts))
  ELSE IF IsOp(ts, {"("})
  THEN IF IsOp(Tail(ts), {")"}) THEN PyOk(Tuple, Tail(Tail(ts)))
       ELSE LET e == PyBinary(1, Tail(ts))
            IN IF ~e.ok \/ ~IsOp(e.rest, {")"}) THEN PyFail
               ELSE PyOk(e.val, Tail(e.rest))
  ELSE PyFail

\* eval(expression) for a string of allowed characters
PyEval(cs) ==
  LET e == PyBinary(1, Lex(cs))
  IN IF e.ok /\ e.rest = <<>> THEN e.val ELSE SyntaxErr

----------------------------------------------------------------------------
(* The tool handlers of DeepseekAgent (agent_tools.py).                    *)
(* A call gives [ret, trace]: ret is the value returned or the exception   *)
(* raised, trace lists, in order, the handlers entered, the configuration  *)
(* lookups and the external calls made.  A result string is                *)
(* [t |-> "string", msg, arg]: msg names the message template of the       *)
(* source, arg holds the values formatted into it.                         *)

Ret(v, trace) == [ret |-> v, trace |-> trace]
Str(msg, arg) == [t |-> "string", msg |-> msg, arg |-> arg]
BoolV(b) == [t |-> "bool", v |-> b]
Dict(d) == [t |-> "dict", v |-> d]
DateTime == [t |-> "datetime"]

\* truth value of a Python value
Truthy(v) ==
  CASE v.t = "None" -> FALSE
    [] v.t = "bool" -> v.v
    [] v.t = "num" -> v.v # 0
    [] v.t \in {"str", "arr"} -> v.v # <<>>
    [] v.t = "obj" -> DOMAIN v.v # {}
    [] OTHER -> TRUE

\* action == "name"
Is(action, name) == action.t = "str" /\ action.v = <<name>>

\* parameters has a get method: only a mapping has
HasGet(parameters) == parameters.t = "obj"
NoGet == Ret(Raise("AttributeError"), <<>>)

\* parameters.get(key, default) of a mapping
Get(parameters, key, default) ==
  IF <<key>> \in DOMAIN parameters.v THEN parameters.v[<<key>>] ELSE default

\* result.get(key, default) of a result record
DictGet(result, key, default) == IF key \in DOMAIN result THEN result[key] ELSE default

\* what the outside world does with a request
Outcomes == {"ok", "empty", "HttpError", "Exception"}

\* the external services and the configuration lookup, as trace events
External == {"requests.get", "requests.post", "google_api", "stock_agent", "smtp"}
ConfigLookup == "os.environ.get"

\* a handler entered, then what it did
Invoke(name, r) == Ret(r.ret, <<name>> \o r.trace)

\* except Exception as e: return f"<label>: {str(e)}"
handler_except(r, label) ==
  IF r.ret.t = "raise" THEN Ret(Str(label, <<r.ret.v>>), r.trace) ELSE r

\* a time text datetime.strptime(text, "%Y-%m-%d %H:%M") accepts
GoodTime == "2025-01-01 10:00"

Strptime(v) ==
  IF v.t # "str" THEN Raise("TypeError")
  ELSE IF v.v = <<GoodTime>> THEN DateTime
  ELSE Raise("ValueError")

\* manager methods whose try catches every Exception; the others catch
\* HttpError only
CatchAll ==
  {"delete_task_by_title", "delete_tasks_by_time_range",
   "delete_event_by_summary", "delete_events_by_time_range"}

\* manager methods that compute timedelta(days=days) before the request
UsesDays == {"query_events", "delete_event_by_summary"}

Queries == {"query_tasks", "query_events"}

\* self.calendar_manager.<method>(...): the result record of the Google
\* calendar manager, or the exception that leaves it; items stands for the
\* tasks or events list of a query
calendar_manager(method, days, env) ==
  IF ~env.configured
  THEN Ret(Dict([success |-> FALSE, error |-> Str("service_uninitialized", <<>>)]), <<>>)
  ELSE IF method \in UsesDays /\ days.t # "num"
  THEN IF method \in CatchAll
       THEN Ret(Dict([success |-> FALSE, error |-> Str("manager_error", <<"TypeError">>)]), <<>>)
       ELSE Ret(Raise("TypeError"), <<>>)
  ELSE IF env.outcome = "HttpError"
  THEN Ret(Dict([success |-> FALSE, error |-> Str("manager_failed", <<"HttpError">>)]),
           <<"google_api">>)
  ELSE IF env.outcome = "Exception"
  THEN IF method \in CatchAll
       THEN Ret(Dict([success |-> FALSE, error |-> Str("manager_error", <<"Exception">>)]),
                <<"google_api">>)
       ELSE Ret(Raise("Exception"), <<"google_api">>)
  ELSE IF method \in Queries
  THEN IF env.outcome = "empty"
       THEN Ret(Dict([success |-> TRUE, items |-> <<>>, message |-> Str("nothing_found", <<>>)]),
                <<"google_api">>)
       ELSE Ret(Dict([success |-> TRUE, items |-> <<"item">>, count |-> 1,
                      message |-> Str("found", <<1>>)]), <<"google_api">>)
  ELSE IF method \in CatchAll /\ env.outcome = "empty"
  THEN Ret(Dict([success |-> FALSE, error |-> Str("no_match", <<>>)]), <<"google_api">>)
  ELSE Ret(Dict([success |-> TRUE, message |-> Str("manager_done", <<method>>)]),
           <<"google_api">>)

\* if result.get("success"): return result.get("message", <done>)
\* else: return f"❌ {result.get('error', <failed>)}"
ReportResult(r, done, failed) ==
  IF r.ret.t = "raise" THEN r
  ELSE IF r.ret.v.success THEN Ret(DictGet(r.ret.v, "message", done), r.trace)
  ELSE Ret(Str("failed", <<DictGet(r.ret.v, "error", failed)>>), r.trace)

\* fault: the result record itself is returned, not its message
MessageOrError_WholeRecord(r, default) == r

\* return result.get("message", result.get("error", <default>))
MessageOrError(r, default) ==
  IF r.ret.t = "raise" THEN r
  ELSE Ret(DictGet(r.ret.v, "message", DictGet(r.ret.v, "error", default)), r.trace)

\* "请指定城市名称" / "天气查询失败" / f"{city}天气：..."
get_weather(city, env) ==
  Invoke("get_weather",
    IF ~Truthy(city) THEN Ret(Str("need_city", <<>>), <<>>)
    ELSE IF env.outcome = "ok" THEN Ret(Str("weather", <<city>>), <<"requests.get">>)
    ELSE Ret(Str("weather_failed", <<>>), <<"requests.get">>))

AllowedChars == {"+", "-", "*", "/", "(", ")", ".", " "} \cup Digits

\* all(c in allowed_chars for c in expression): TRUE, FALSE, or the
\* exception the iteration raises
RECURSIVE AllAllowedItems(_)
AllAllowedItems(items) ==
  IF items = <<>> THEN BoolV(TRUE)
  ELSE LET c == Head(items)
       IN IF c.t \in {"arr", "obj"} THEN Raise("TypeError")
          ELSE IF c.t = "str" /\ Len(c.v) = 1 /\ c.v[1] \in AllowedChars
          THEN AllAllowedItems(Tail(items))
          ELSE BoolV(FALSE)

RECURSIVE KeyItems(_)
KeyItems(keys) ==
  IF keys = {} THEN <<>>
  ELSE LET k == CHOOSE k \in keys : TRUE IN <<StrV(k)>> \o KeyItems(keys \ {k})

AllAllowed(expression) ==
  CASE expression.t = "str" -> BoolV(\A i \in 1..Len(expression.v) : expression.v[i] \in AllowedChars)
    [] expression.t = "arr" -> AllAllowedItems(expression.v)
    [] expression.t = "obj" -> AllAllowedItems(KeyItems(DOMAIN expression.v))
    [] OTHER -> Raise("TypeError")

\* the body of calculator's try
calculator_try(expression) ==
  LET allowed == AllAllowed(expression)
  IN IF IsRaise(allowed) THEN allowed
     ELSE IF ~allowed.v THEN Str("unsupported_chars", <<>>)
     ELSE IF expression.t # "str" THEN Raise("TypeError")
     ELSE LET result == PyEval(expression.v)
          IN IF IsRaise(result) THEN result
             ELSE Str("calc_result", <<expression.v, result>>)

\* fault: no except clause around the evaluation
calculator_except_Uncaught(r) == r

\* except: return "计算失败"
calculator_except(r) == IF r.t = "raise" THEN Str("calc_failed", <<>>) ELSE r

\* "请提供数学表达式" / "表达式包含不支持的字符" / f"{expression} = {result}"
calculator(expression) ==
  Invoke("calculator",
    IF ~Truthy(expression) THEN Ret(Str("need_expression", <<>>), <<>>)
    ELSE Ret(calculator_except(calculator_try(expression)), <<>>))

\* fault: the presence check comes after the configuration lookup
send_email_LateCheck(to, subject, body, env) ==
  Invoke("send_email",
    IF ~env.configured THEN Ret(Str("email_not_configured", <<>>), <<ConfigLookup>>)
    ELSE IF ~(Truthy(to) /\ Truthy(subject) /\ Truthy(body))
    THEN Ret(Str("email_fields_empty", <<>>), <<ConfigLookup>>)
    ELSE IF env.outcome \in {"ok", "empty"}
    THEN Ret(Str("email_sent", <<to>>), <<ConfigLookup, "requests.post">>)
    ELSE IF env.outcome = "HttpError"
    THEN Ret(Str("email_failed", <<"HttpError">>), <<ConfigLookup, "requests.post">>)
    ELSE Ret(Str("email_exception", <<"Exception">>), <<ConfigLookup, "requests.post">>))

\* "收件人、主题或正文不能为空" / "邮件服务未配置" / "📧 邮件发送成功" /
\* "❌ 邮件发送失败" / "❌ 邮件发送异常"
send_email(to, subject, body, env) ==
  Invoke("send_email",
    IF ~(Truthy(to) /\ Truthy(subject) /\ Truthy(body))
    THEN Ret(Str("email_fields_empty", <<>>), <<>>)
    ELSE IF ~env.configured THEN Ret(Str("email_not_configured", <<>>), <<ConfigLookup>>)
    ELSE IF env.outcome \in {"ok", "empty"}
    THEN Ret(Str("email_sent", <<to>>), <<ConfigLookup, "requests.post">>)
    ELSE IF env.outcome = "HttpError"
    THEN Ret(Str("email_failed", <<"HttpError">>), <<ConfigLookup, "requests.post">>)
    ELSE Ret(Str("email_exception", <<"Exception">>), <<ConfigLookup, "requests.post">>))

\* the PDF bytes, or None when the stock agent gives nothing or fails
generate_stock_report(stock_name, env) ==
  Invoke("generate_stock_report",
    IF env.outcome = "ok" THEN Ret([t |-> "bytes"], <<"stock_agent">>)
    ELSE Ret(None, <<"stock_agent">>))

create_task(title, notes, due_date, reminder_minutes, priority, env) ==
  LET due_dt == IF Truthy(due_date) THEN Strptime(due_date) ELSE None
      result == IF IsRaise(due_dt) THEN Ret(due_dt, <<>>)
                ELSE calendar_manager("create_task", None, env)
  IN Invoke("create_task",
       handler_except(ReportResult(result, Str("task_created", <<title>>),
                                   Str("create_task_failed", <<>>)),
                      "create_task_error"))

query_tasks(show_completed, max_results, env) ==
  LET result == calendar_manager("query_tasks", None, env)
      body == IF result.ret.t = "raise" THEN result
              ELSE IF ~result.ret.v.success
              THEN Ret(Str("failed", <<DictGet(result.ret.v, "error",
                                               Str("query_tasks_failed", <<>>))>>), result.trace)
              ELSE IF result.ret.v.items = <<>> THEN Ret(result.ret.v.message, result.trace)
              ELSE Ret(Str("tasks_text", <<show_completed, result.ret.v.count>>), result.trace)
  IN Invoke("query_tasks", handler_except(body, "query_tasks_error"))

update_task_status(task_id, status, env) ==
  Invoke("update_task_status",
    handler_except(MessageOrError(calendar_manager("update_task_status", None, env),
                                  Str("status_updated", <<>>)),
                   "update_task_status_error"))

delete_task(task_id, env) ==
  Invoke("delete_task",
    handler_except(MessageOrError(calendar_manager("delete_task", None, env),
                                  Str("deleted", <<>>)),
                   "delete_task_error"))

delete_task_by_title(title_keyword, env) ==
  Invoke("delete_task_by_title",
    handler_except(MessageOrError(calendar_manager("delete_task_by_title", None, env),
                                  Str("deleted", <<>>)),
                   "delete_task_by_title_error"))

delete_tasks_by_time_range(start_date, end_date, show_completed, env) ==
  Invoke("delete_tasks_by_time_range",
    handler_except(ReportResult(calendar_manager("delete_tasks_by_time_range", None, env),
                                Str("tasks_range_deleted", <<>>),
                                Str("tasks_range_failed", <<>>)),
                   "delete_tasks_by_time_range_error"))

create_event(summary, description, start_time, end_time, reminder_minutes, priority, env) ==
  LET start_dt == IF Truthy(start_time) THEN Strptime(start_time) ELSE None
      end_dt == IF IsRaise(start_dt) THEN start_dt
                ELSE IF Truthy(end_time) THEN Strptime(end_time) ELSE None
      result == IF IsRaise(end_dt) THEN Ret(end_dt, <<>>)
                ELSE calendar_manager("create_event", None, env)
  IN Invoke("create_event",
       handler_except(ReportResult(result, Str("event_created", <<summary>>),
                                   Str("create_event_failed", <<>>)),
                      "create_event_error"))

query_events(days, max_results, env) ==
  LET result == calendar_manager("query_events", days, env)
      body == IF result.ret.t = "raise" THEN result
              ELSE IF ~result.ret.v.success THEN Ret(result.ret.v.error, result.trace)
              ELSE Ret(result.ret.v.message, result.trace)
  IN Invoke("query_events", handler_except(body, "query_events_error"))

update_event_status(event_id, status, env) ==
  Invoke("update_event_status",
    handler_except(MessageOrError(calendar_manager("update_event_status", None, env),
                                  Str("status_updated", <<>>)),
                   "update_event_status_error"))

delete_event(event_id, env) ==
  Invoke("delete_event",
    handler_except(MessageOrError(calendar_manager("delete_event", None, env),
                                  Str("deleted", <<>>)),
                   "delete_event_error"))

delete_event_by_summary(summary, days, env) ==
  Invoke("delete_event_by_summary",
    handler_except(MessageOrError(calendar_manager("delete_event_by_summary", days, env),
                                  Str("deleted", <<>>)),
                   "delete_event_by_summary_error"))

delete_events_by_time_range(start_date, end_date, env) ==
  Invoke("delete_events_by_time_range",
    handler_except(ReportResult(calendar_manager("delete_events_by_time_range", None, env),
                                Str("events_range_deleted", <<>>),
                                Str("events_range_failed", <<>>)),
                   "delete_events_by_time_range_error"))

----------------------------------------------------------------------------
(* DeepseekAgent.call_tool of agent_tools.py *)

\* fault: the fall-through answer leaves the action name out
UnknownTool_Anonymous(action) == Ret(Str("unknown_tool", <<>>), <<>>)

\* result = f"未知工具：{action}"
UnknownTool(action) == Ret(Str("unknown_tool", <<action>>), <<>>)

\* the record call_tool builds around the PDF bytes
StockRecord(pdf, stock_name) ==
  IF Truthy(pdf.ret)
  THEN Ret([t |-> "record",
            v |-> [success |-> TRUE, pdf_binary |-> pdf.ret,
                   message |-> Str("stock_report_done", <<>>), stock_name |-> stock_name]],
           pdf.trace)
  ELSE Ret([t |-> "record",
            v |-> [success |-> FALSE, error |-> Str("stock_report_failed", <<>>)]],
           pdf.trace)

\* the body of call_tool's try: the if/elif chain over the action name
call_tool_try(action, parameters, env) ==
  IF Is(action, "create_task") THEN
    IF ~HasGet(parameters) THEN NoGet
    ELSE create_task(Get(parameters, "title", StrV(<<>>)),
                     Get(parameters, "notes", StrV(<<>>)),
                     Get(parameters, "due_date", None),
                     Get(parameters, "reminder_minutes", NumV(60)),
                     Get(parameters, "priority", StrV(<<"medium">>)), env)
  ELSE IF Is(action, "query_tasks") THEN
    IF ~HasGet(parameters) THEN NoGet
    ELSE query_tasks(Get(parameters, "show_completed", BoolV(FALSE)),
                     Get(parameters, "max_results", NumV(20)), env)
  ELSE IF Is(action, "update_task_status") THEN
    IF ~HasGet(parameters) THEN NoGet
    ELSE update_task_status(Get(parameters, "task_id", StrV(<<>>)),
                            Get(parameters, "status", StrV(<<"completed">>)), env)
  ELSE IF Is(action, "delete_task") THEN
    IF ~HasGet(parameters) THEN NoGet
    ELSE delete_task(Get(parameters, "task_id", StrV(<<>>)), env)
  ELSE IF Is(action, "delete_task_by_title") THEN
    IF ~HasGet(parameters) THEN NoGet
    ELSE delete_task_by_title(Get(parameters, "title_keyword", StrV(<<>>)), env)
  ELSE IF Is(action, "delete_tasks_by_time_range") THEN
    IF ~HasGet(parameters) THEN NoGet
    ELSE delete_tasks_by_time_range(Get(parameters, "start_date", None),
                                    Get(parameters, "end_date", None),
                                    Get(parameters, "show_completed", BoolV(TRUE)), env)
  ELSE IF Is(action, "create_event") THEN
    IF ~HasGet(parameters) THEN NoGet
    ELSE create_event(Get(parameters, "summary", StrV(<<>>)),
                      Get(parameters, "description", StrV(<<>>)),
                      Get(parameters, "start_time", None),
                      Get(parameters, "end_time", None),
                      Get(parameters, "reminder_minutes", NumV(30)),
                      Get(parameters, "priority", StrV(<<"medium">>)), env)
  ELSE IF Is(action, "query_events") THEN
    IF ~HasGet(parameters) THEN NoGet
    ELSE query_events(Get(parameters, "days", NumV(30)),
                      Get(parameters, "max_results", NumV(20)), env)
  ELSE IF Is(action, "update_event_status") THEN
    IF ~HasGet(parameters) THEN NoGet
    ELSE update_event_status(Get(parameters, "event_id", StrV(<<>>)),
                             Get(parameters, "status", StrV(<<"completed">>)), env)
  ELSE IF Is(action, "delete_event") THEN
    IF ~HasGet(parameters) THEN NoGet
    ELSE delete_event(Get(parameters, "event_id", StrV(<<>>)), env)
  ELSE IF Is(action, "delete_event_by_summary") THEN
    IF ~HasGet(parameters) THEN NoGet
    ELSE delete_event_by_summary(Get(parameters, "summary", StrV(<<>>)),
                                 Get(parameters, "days", NumV(30)), env)
  ELSE IF Is(action, "delete_events_by_time_range") THEN
    IF ~HasGet(parameters) THEN NoGet
    ELSE delete_events_by_time_range(Get(parameters, "start_date", None),
                                     Get(parameters, "end_date", None), env)
  ELSE IF Is(action, "generate_stock_report") THEN
    IF ~HasGet(parameters) THEN NoGet
    ELSE StockRecord(generate_stock_report(Get(parameters, "stock_name", StrV(<<>>)), env),
                     Get(parameters, "stock_name", StrV(<<>>)))
  ELSE IF Is(action, "get_weather") THEN
    IF ~HasGet(parameters) THEN NoGet
    ELSE get_weather(Get(parameters, "city", StrV(<<>>)), env)
  ELSE IF Is(action, "calculator") THEN
    IF ~HasGet(parameters) THEN NoGet
    ELSE calculator(Get(parameters, "expression", StrV(<<>>)))
  ELSE IF Is(action, "send_email") THEN
    IF ~HasGet(parameters) THEN NoGet
    ELSE send_email(Get(parameters, "to", StrV(<<>>)),
                    Get(parameters, "subject", StrV(<<>>)),
                    Get(parameters, "body", StrV(<<>>)), env)
  ELSE UnknownTool(action)

\* fault: call_tool has no except clause
call_tool_except_Uncaught(r, action) == r

\* except Exception as e: return f"❌ 执行工具 {action} 时出错: {str(e)}"
call_tool_except(r, action) ==
  IF r.ret.t = "raise" THEN Ret(Str("tool_error", <<action, r.ret.v>>), r.trace) ELSE r

call_tool(action, parameters, env) ==
  call_tool_except(call_tool_try(action, parameters, env), action)

----------------------------------------------------------------------------
(* Toolkit of Test.py *)

\* "邮件发送失败：收件人、主题或正文不能为空" / "邮件发送失败：请在.env文件中配置..." /
\* "邮件发送成功！" / False
send_qq_email(to, subject, body, env) ==
  Invoke("send_qq_email",
    IF ~(Truthy(to) /\ Truthy(subject) /\ Truthy(body))
    THEN Ret(Str("qq_fields_empty", <<>>), <<>>)
    ELSE IF ~env.configured THEN Ret(Str("qq_not_configured", <<>>), <<>>)
    ELSE IF env.outcome \in {"ok", "empty"} THEN Ret(Str("qq_sent", <<to, subject>>), <<"smtp">>)
    ELSE Ret(BoolV(FALSE), <<"smtp">>))

\* value.strip(): only a string has it
StripValue(v) == IF v.t = "str" THEN StrV(Strip(v.v)) ELSE Raise("AttributeError")

toolkit_call_tool(action, parameters, env) ==
  IF Is(action, "send_qq_email") THEN
    IF ~HasGet(parameters) THEN NoGet
    ELSE LET to == StripValue(Get(parameters, "to", StrV(<<>>)))
             subject == StripValue(Get(parameters, "subject", StrV(<<>>)))
             body == StripValue(Get(parameters, "body", StrV(<<>>)))
         IN IF IsRaise(to) THEN Ret(to, <<>>)
            ELSE IF IsRaise(subject) THEN Ret(subject, <<>>)
            ELSE IF IsRaise(body) THEN Ret(body, <<>>)
            ELSE send_qq_email(to, subject, body, env)
  ELSE Ret(Str("toolkit_unknown_tool", <<action>>), <<>>)

----------------------------------------------------------------------------
(* The replies the extractors are run on *)

\* longest reply made of arbitrary atoms
MaxJunk == 3

Key(k) == <<QUOTE, k, QUOTE>>
Member(k, text) == Key(k) \o <<":">> \o text
Braces(text) == <<"{">> \o text \o <<"}">>

\* values an action field can hold, as text and as parsed value
ActionArgs ==
  << [text |-> Key("x"), val |-> StrV(<<"x">>)],
     [text |-> <<"1">>, val |-> NumV(1)] >>

\* values a parameters field can hold, as text and as parsed value
ParamArgs ==
  << [text |-> <<"{", "}">>, val |-> ObjV(EmptyDict)],
     [text |-> Braces(Member("x", Key("x"))), val |-> ObjV(<<"x">> :> StrV(<<"x">>))],
     [text |-> Braces(Member("x", <<"1", "1">>)), val |-> ObjV(<<"x">> :> NumV(11))],
     [text |-> <<"1">>, val |-> NumV(1)],
     [text |-> <<"[">> \o Key("x") \o <<"]">>, val |-> ArrV(<<StrV(<<"x">>)>>)],
     [text |-> Key("x"), val |-> StrV(<<"x">>)],
     [text |-> Braces(Member("x", Key(FENCE))), val |-> ObjV(<<"x">> :> StrV(<<FENCE>>))] >>

\* the invocation value {"action": a, "parameters": p}
Invocation(a, p) == ObjV((<<"action">> :> a) @@ (<<"parameters">> :> p))

InvText(a, p) == Braces(Member("action", a) \o <<",">> \o Member("parameters", p))

Body(text, kind, val) == [text |-> text, kind |-> kind, val |-> val]

PlainInvText == InvText(Key("x"), <<"{", "}">>)
PlainInv == Invocation(StrV(<<"x">>), ObjV(EmptyDict))

\* objects holding both fields, written compactly
InvBodies ==
  [i \in 1..(Len(ActionArgs) * Len(ParamArgs)) |->
     LET a == ActionArgs[((i - 1) \div Len(ParamArgs)) + 1]
         p == ParamArgs[((i - 1) % Len(ParamArgs)) + 1]
     IN Body(InvText(a.text, p.text), "invocation", Invocation(a.val, p.val))]

\* objects holding both fields, in other layouts
LayoutBodies ==
  << Body(<<"{", WS>> \o Key("action") \o <<WS, ":", WS>> \o Key("x") \o <<WS, ",", WS>>
            \o Key("parameters") \o <<":", WS, "{", WS, "}", WS, "}">>,
          "invocation", PlainInv),
     Body(Braces(Member("parameters", <<"{", "}">>) \o <<",">> \o Member("action", Key("x"))),
          "invocation", PlainInv),
     Body(Braces(Member("action", Key("x")) \o <<",">> \o Member("x", <<"1">>) \o <<",">>
                 \o Member("parameters", <<"{", "}">>)),
          "invocation",
          ObjV((<<"action">> :> StrV(<<"x">>)) @@ (<<"x">> :> NumV(1))
               @@ (<<"parameters">> :> ObjV(EmptyDict)))),
     Body(Braces(Member("action", <<"1">>) \o <<",">> \o Member("parameters", <<"{", "}">>)
                 \o <<",">> \o Member("action", Key("x"))),
          "invocation", PlainInv) >>

\* well-formed JSON that is no invocation
OtherJsonBodies ==
  << Body(Braces(Member("action", Key("x"))), "partial", None),
     Body(Braces(Member("parameters", <<"{", "}">>)), "partial", None),
     Body(<<"{", "}">>, "partial", None),
     Body(Braces(Member("x", Key("x"))), "partial", None),
     Body(Braces(<<QUOTE, "action", WS, QUOTE, ":", "1", ",">> \o Member("parameters", <<"1">>)),
          "partial", None),
     Body(<<"[">> \o PlainInvText \o <<"]">>, "nonobject", None),
     Body(<<"[", "]">>, "nonobject", None),
     Body(<<"1">>, "nonobject", None),
     Body(Key("action"), "nonobject", None) >>

\* text json.loads rejects
MalformedBodies ==
  << Body(SubSeq(PlainInvText, 1, Len(PlainInvText) - 1), "malformed", None),
     Body(Braces(Member("action", Key("x")) \o <<",">> \o Member("parameters", <<"{", "}">>)
                 \o <<",">>), "malformed", None),
     Body(Braces(Key("action") \o Key("x")), "malformed", None),
     Body(Braces(Member("action", Key("x")) \o <<",">> \o Member("parameters", <<>>)),
          "malformed", None),
     Body(<<"{", "x", "}">>, "malformed", None),
     Body(<<QUOTE, "x">>, "malformed", None),
     Body(PlainInvText \o <<"x">>, "malformed", None),
     Body(PlainInvText \o <<"}">>, "malformed", None),
     Body(<<"x", WS, "x">>, "malformed", None),
     Body(<<>>, "malformed", None) >>

Bodies == InvBodies \o LayoutBodies \o OtherJsonBodies \o MalformedBodies

Prefixes == {<<>>, <<"x">>, <<WS>>, <<"x", WS>>, <<FENCE, "x", FENCE>>,
             <<FENCE, "{", "x", "}", FENCE>>}
Opens == {<<>>, <<FENCE>>, FenceJson, <<FENCE, "JSON">>, FenceJson \o <<WS>>}
Closes == {<<>>, <<FENCE>>, <<WS, FENCE>>}
Suffixes == {<<>>, <<"x">>, <<WS>>, FenceJson \o PlainInvText \o <<FENCE>>}

\* a reply put together from its pieces
Shape(pre, open, body, close, suf) ==
  [pre |-> pre, open |-> open, body |-> body, close |-> close, suf |-> suf]

ShapeText(sh) ==
  sh.pre \o sh.open \o (IF sh.body = 0 THEN <<>> ELSE Bodies[sh.body].text)
    \o sh.close \o sh.suf

RECURSIVE SeqsUpTo(_, _)
SeqsUpTo(S, n) ==
  IF n = 0 THEN {<<>>}
  ELSE LET shorter == SeqsUpTo(S, n - 1)
       IN shorter \cup {Append(q, a) : q \in {r \in shorter : Len(r) = n - 1}, a \in S}

\* replies built around a body, and replies of arbitrary atoms (body 0)
Shapes ==
  {Shape(pre, open, b, close, suf) :
     pre \in Prefixes, open \in Opens, b \in 1..Len(Bodies), close \in Closes, suf \in Suffixes}
  \cup {Shape(j, <<>>, 0, <<>>, <<>>) : j \in SeqsUpTo(Atoms, MaxJunk)}

----------------------------------------------------------------------------
(* The invocations the dispatcher is run on *)

\* the action names call_tool and the Toolkit compare against
HandlerNames ==
  << "create_task", "query_tasks", "update_task_status", "delete_task",
     "delete_task_by_title", "delete_tasks_by_time_range", "create_event",
     "query_events", "update_event_status", "delete_event",
     "delete_event_by_summary", "delete_events_by_time_range",
     "generate_stock_report", "get_weather", "calculator", "send_email",
     "send_qq_email" >>

\* action values no branch of call_tool compares equal to
OtherActions ==
  { StrV(<<"unknown_tool_xyz">>), StrV(<<"Calculator">>), StrV(<<"send_email", WS>>),
    StrV(<<>>), NumV(1), None, ArrV(<<StrV(<<"calculator">>)>>) }

DispatchActions == {StrV(<<HandlerNames[i]>>) : i \in 1..Len(HandlerNames)} \cup OtherActions

\* the parameter names each branch of call_tool reads
KeysOf(action) ==
  IF Is(action, "create_task")
  THEN {"title", "notes", "due_date", "reminder_minutes", "priority"}
  ELSE IF Is(action, "query_tasks") THEN {"show_completed", "max_results"}
  ELSE IF Is(action, "update_task_status") THEN {"task_id", "status"}
  ELSE IF Is(action, "delete_task") THEN {"task_id"}
  ELSE IF Is(action, "delete_task_by_title") THEN {"title_keyword"}
  ELSE IF Is(action, "delete_tasks_by_time_range")
  THEN {"start_date", "end_date", "show_completed"}
  ELSE IF Is(action, "create_event")
  THEN {"summary", "description", "start_time", "end_time", "reminder_minutes", "priority"}
  ELSE IF Is(action, "query_events") THEN {"days", "max_results"}
  ELSE IF Is(action, "update_event_status") THEN {"event_id", "status"}
  ELSE IF Is(action, "delete_event") THEN {"event_id"}
  ELSE IF Is(action, "delete_event_by_summary") THEN {"summary", "days"}
  ELSE IF Is(action, "delete_events_by_time_range") THEN {"start_date", "end_date"}
  ELSE IF Is(action, "generate_stock_report") THEN {"stock_name"}
  ELSE IF Is(action, "get_weather") THEN {"city"}
  ELSE IF Is(action, "calculator") THEN {"expression"}
  ELSE IF Is(action, "send_email") \/ Is(action, "send_qq_email") THEN {"to", "subject", "body"}
  ELSE {"x"}

\* values a parameter can arrive with: of the expected type and of others
ValuesOf(key) ==
  IF key \in {"to", "subject", "body", "city", "stock_name"}
  THEN {StrV(<<"x">>), StrV(<<>>), StrV(<<WS>>), NumV(1), NumV(0), None, ArrV(<<StrV(<<"x">>)>>)}
  ELSE IF key = "expression"
  THEN {StrV(<<"2", "+", "2">>), StrV(<<"2", "/", "0">>), StrV(<<"2", "+", "x">>), StrV(<<>>),
        StrV(<<"(", ")">>), NumV(1), NumV(0), None, ArrV(<<StrV(<<"2">>)>>),
        ArrV(<<StrV(<<"2">>), ArrV(<<>>)>>), ArrV(<<NumV(2)>>),
        ObjV(<<"2">> :> NumV(1)), ObjV(EmptyDict)}
  ELSE IF key \in {"due_date", "start_time", "end_time"}
  THEN {StrV(<<GoodTime>>), StrV(<<"x">>), StrV(<<>>), NumV(1), None}
  ELSE IF key = "days" THEN {NumV(7), StrV(<<"7">>), None}
  ELSE {StrV(<<"x">>), NumV(1)}

\* parameters values that are no mapping
NonMappings == {None, NumV(1), StrV(<<"x">>), ArrV(<<>>)}

\* the mappings over some of the keys
RECURSIVE Mappings(_)
Mappings(keys) ==
  IF keys = {} THEN {EmptyDict}
  ELSE LET k == CHOOSE k \in keys : TRUE
           rest == Mappings(keys \ {k})
       IN rest \cup {m @@ (<<k>> :> v) : m \in rest, v \in ValuesOf(k)}

ParamsFor(action) == NonMappings \cup {ObjV(m) : m \in Mappings(KeysOf(action))}

\* configured: the service or key the handler needs is there
Envs == [configured : BOOLEAN, outcome : Outcomes]

\* longest expression of arbitrary characters handed to the calculator
MaxExprLen == 5

ExprChars == {"0", "2", "3", "+", "-", "*", "/", "(", ")"}

\* longer expressions, and expressions with a point or spaces
SpecialExprs ==
  { <<"(", "2", "+", "3", ")", "*", "2">>,
    <<"2", "*", "(", "3", "+", "2", ")">>,
    <<"2", "-", "(", "3", "-", "2", ")">>,
    <<"2", "0", "/", "(", "2", "+", "3", ")">>,
    <<"2", "+", "3", "*", "(", "2", "-", "3", ")">>,
    <<"(", "2", "+", "2", ")", "*", "(", "3", "-", "2", ")">>,
    <<"1", "2", "-", "2", "*", "3", "+", "2">>,
    <<"2", "-", "2", "/", "(", "3", "-", "3", ")">>,
    <<" ", "2", " ", "+", " ", "2", " ", "*", " ", "3">>,
    <<"2", ".", "5", "*", "2">>,
    <<"2", "+", "2", "*", "x">> }

----------------------------------------------------------------------------
(* DeepseekAgent.process_request of agent_tools.py and                     *)
(* DeepseekAgent.process_input of Test.py: replies and results.             *)

\* not there yet: a value not returned, a response not given
Pending == [t |-> "pending"]

\* what the chat-completion service does with a request: it answers with
\* a text, answers without content, answers without choices, or fails
LlmOutcomes == {"reply", "no_content", "no_choices", "raise"}

\* the calls a request makes, as entries of calls
ChatCompletion == "chat.completions.create"
ExtractCall == "extract_tool_call"
DispatchCall == "call_tool"

Record(v) == [t |-> "record", v |-> v]

\* the replies of the model: invocations of handlers and of unknown tools
\* inside a json block, bare, broken, and plain text
Fenced(text) == FenceJson \o text \o <<FENCE>>

RequestInvocations ==
  { InvText(Key("calculator"), Braces(Member("expression", <<QUOTE, "2", "+", "2", QUOTE>>))),
    InvText(Key("calculator"), <<"1">>),
    InvText(Key("get_weather"), Braces(Member("city", Key("x")))),
    InvText(Key("send_email"), Braces(Member("to", Key("x")))),
    InvText(Key("send_qq_email"),
            Braces(Member("to", Key("x")) \o <<",">> \o Member("subject", Key("x"))
                   \o <<",">> \o Member("body", Key("x")))),
    InvText(Key("delete_task"), Braces(Member("task_id", Key("x")))),
    InvText(Key("generate_stock_report"), Braces(Member("stock_name", Key("x")))),
    InvText(Key("generate_stock_report"), Key("x")),
    InvText(Key("x"), <<"{", "}">>),
    InvText(<<"1">>, <<"[", "]">>) }

RequestReplies ==
  {Fenced(t) : t \in RequestInvocations}
  \cup {<<"x", WS>> \o Fenced(t) \o <<WS>> : t \in RequestInvocations}
  \cup RequestInvocations
  \cup {<<WS>> \o t \o <<WS>> : t \in RequestInvocations}
  \cup { <<>>, <<WS>>, <<"x">>, <<"x", WS, "x">>, Fenced(<<"{", "}">>), Fenced(<<"x">>),
         Fenced(Braces(Member("action", Key("x")))), FenceJson \o PlainInvText,
         <<"{", "}">> }

\* tool_data["action"], tool_data["parameters"]: the value or KeyError
Item(data, key) ==
  IF data.t = "obj" /\ <<key>> \in DOMAIN data.v THEN data.v[<<key>>]
  ELSE Raise("KeyError")

\* str(tool_result)
PyStr(v) == Str("str", <<v>>)

\* the two returns after the dispatch: the stock_pdf record for a
\* successful report, the text record for everything else
ToolResponse(a, r) ==
  IF Is(a, "generate_stock_report") /\ r.t = "record" /\ r.v.success
  THEN Record([type |-> "stock_pdf", success |-> TRUE,
               pdf_binary |-> DictGet(r.v, "pdf_binary", None),
               message |-> DictGet(r.v, "message", None),
               stock_name |-> DictGet(r.v, "stock_name", None)])
  ELSE Record([type |-> "text", content |-> PyStr(r), success |-> TRUE])

\* the return without tool call
TextResponse(text) == Record([type |-> "text", content |-> StrV(text), success |-> TRUE])

\* except Exception as e: "处理请求时出错：{e}", success False
ErrorResponse(e) ==
  Record([type |-> "text", content |-> Str("request_error", <<e>>), success |-> FALSE])

----------------------------------------------------------------------------
(* The webhook server of main.py and of app.py.                            *)
(* A request is followed from the POST to the response and, for an LLM     *)
(* message, through its background task.  The event loop runs one          *)
(* coroutine segment at a time; a segment ends where the coroutine is      *)
(* suspended (request.json(), the POST of send_official_message in the     *)
(* executor, smart_assistant).  In main.py the body of a background task   *)
(* runs in a thread of thread_pool and is interleaved with everything.     *)
(* A message counts as sent when send_official_message is called with it:  *)
(* its return value (accepted by DingTalk or not) is read by no caller.    *)

\* requests followed
MaxRequests == 2

\* seconds that pass between two readings of the clock: none, one step or
\* two steps; the last second looked at
TickSeconds == 150
MaxNow == 600
Elapsed == {0, TickSeconds, 2 * TickSeconds}

\* "running" if duration < 300 else "stuck"
StuckAfter == 300

\* ThreadPoolExecutor(max_workers=5)
max_workers == 5

Servers == {"main.py", "app.py"}

\* the text of the n-th message
Msg(n) == IF n = 1 THEN "m1" ELSE IF n = 2 THEN "m2" ELSE "m3"

KeyV(k, v) == <<k>> :> v

\* {"text": {"content": ...}, "conversationId": ..., "atUsers": [...]}
TextBody(content) == KeyV("text", ObjV(KeyV("content", content)))
LlmContent(n) == StrV(<<WS, "Test1", WS, "LLM", WS, Msg(n), WS>>)
AtUser == ObjV(KeyV("dingtalkId", StrV(<<"u">>)))

\* bodies that carry the LLM command, of two conversations
LlmBodies(n) ==
  { ObjV(TextBody(LlmContent(n)) @@ KeyV("conversationId", StrV(<<"c1">>))
         @@ KeyV("atUsers", ArrV(<<AtUser>>))),
    ObjV(TextBody(LlmContent(n)) @@ KeyV("conversationId", StrV(<<"c2">>))) }

\* the LLM command without conversation id
NoConversationBodies(n) == { ObjV(TextBody(LlmContent(n))) }

\* the command word for the time of day, two CJK characters in the source
TimeWord == "time"

\* bodies that carry another command, or content that is no text
CommandBodies ==
  { ObjV(TextBody(StrV(<<"Test1", WS, "x">>))),
    ObjV(TextBody(StrV(<<"Test1", "LLM", WS, "m1">>))),
    ObjV(TextBody(StrV(<<"Test1", WS, WS, "LLM", WS, "m1">>))),
    ObjV(TextBody(StrV(<<"Test1", WS, TimeWord>>))),
    ObjV(TextBody(StrV(<<"Test1">>))),
    ObjV(TextBody(StrV(<<>>)) @@ KeyV("atUsers", ArrV(<<>>))),
    ObjV(TextBody(NumV(1))) }

\* LLM messages whose atUsers is of another shape
AtUsersBodies(n) ==
  { ObjV(TextBody(LlmContent(n)) @@ KeyV("atUsers", ArrV(<<ObjV(EmptyDict)>>))),
    ObjV(TextBody(LlmContent(n)) @@ KeyV("atUsers", ArrV(<<StrV(<<"u">>)>>))),
    ObjV(TextBody(LlmContent(n)) @@ KeyV("atUsers", None)),
    ObjV(TextBody(LlmContent(n)) @@ KeyV("atUsers", StrV(<<>>))) }

\* the body no JSON text
InvalidJson == [t |-> "invalid"]

\* bodies without text.content
ShapelessBodies ==
  { ObjV(EmptyDict),
    ObjV(KeyV("conversationId", StrV(<<"c1">>))),
    ObjV(KeyV("text", ObjV(EmptyDict))),
    ObjV(KeyV("text", ObjV(KeyV("x", NumV(1))))),
    ObjV(KeyV("text", NumV(1))),
    ObjV(KeyV("text", None)),
    ObjV(KeyV("text", StrV(<<"x">>))),
    ObjV(KeyV("text", StrV(<<"x", WS, "content">>))),
    ObjV(KeyV("text", ArrV(<<>>))),
    ObjV(KeyV("text", ArrV(<<StrV(<<"content">>)>>))),
    NumV(1), None, StrV(<<"x">>), StrV(<<"text">>), ArrV(<<>>),
    ArrV(<<StrV(<<"text">>)>>), ArrV(<<ObjV(TextBody(StrV(<<"x">>)))>>),
    InvalidJson }

\* the first request is of any kind; the requests that meet it while it
\* is served are LLM messages (a request answered at once shares nothing
\* with the others)
WebhookBodies(n) ==
  IF n = 1
  THEN LlmBodies(n) \cup NoConversationBodies(n) \cup CommandBodies \cup AtUsersBodies(n)
         \cup ShapelessBodies
  ELSE LlmBodies(n)

\* key in container: a key of a mapping, an element of a list, a substring
\* of a string; TypeError for what cannot be searched
PyIn(key, container) ==
  CASE container.t = "obj" -> BoolV(<<key>> \in DOMAIN container.v)
    [] container.t = "arr" ->
         BoolV(\E i \in 1..Len(container.v) : container.v[i] = StrV(<<key>>))
    [] container.t = "str" -> BoolV(Contains(container.v, <<key>>))
    [] OTHER -> Raise("TypeError")

\* container[key] with a string key
PyGetItem(container, key) ==
  IF container.t = "obj"
  THEN IF <<key>> \in DOMAIN container.v THEN container.v[<<key>>] ELSE Raise("KeyError")
  ELSE Raise("TypeError")

\* [user['dingtalkId'] for user in data.get('atUsers', [])]
RECURSIVE DingtalkIds(_)
DingtalkIds(users) ==
  IF users = <<>> THEN ArrV(<<>>)
  ELSE LET id == PyGetItem(Head(users), "dingtalkId")
           rest == DingtalkIds(Tail(users))
       IN IF IsRaise(id) THEN id
          ELSE IF IsRaise(rest) THEN rest
          ELSE ArrV(<<id>> \o rest.v)

AtUserIds(data) ==
  LET users == Get(data, "atUsers", ArrV(<<>>))
  IN CASE users.t = "arr" -> DingtalkIds(users.v)
       [] users.t = "str" -> IF users.v = <<>> THEN ArrV(<<>>) ELSE Raise("TypeError")
       [] users.t = "obj" -> IF DOMAIN users.v = {} THEN ArrV(<<>>) ELSE Raise("TypeError")
       [] OTHER -> Raise("TypeError")

\* command.startswith("Test1 LLM")
LlmPrefix == <<"Test1", WS, "LLM">>

\* re.sub(r'^Test1\s*LLM\s*', '', command).strip()
PureCommand(command) == Strip(From(command, Len(LlmPrefix)))

\* what the handler decides to do with the body
Route(kind, e, conversation_id, user_input, at_user_ids) ==
  [kind |-> kind, e |-> e, conversation_id |-> conversation_id,
   user_input |-> user_input, at_user_ids |-> at_user_ids]

Failed(e) == Route("error", e, None, <<>>, None)
Ignored == Route("ignore", "", None, <<>>, None)

\* the body of webhook's try up to the first message: the tests
\* 'text' in data and 'content' in data['text'], the content, the
\* conversation id and the users
webhook_route(data) ==
  IF data.t = "invalid" THEN Failed("JSONDecodeError")
  ELSE LET hasText == PyIn("text", data)
       IN IF IsRaise(hasText) THEN Failed(hasText.v)
          ELSE IF ~hasText.v THEN Ignored
          ELSE LET text == PyGetItem(data, "text")
               IN IF IsRaise(text) THEN Failed(text.v)
                  ELSE LET hasContent == PyIn("content", text)
                       IN IF IsRaise(hasContent) THEN Failed(hasContent.v)
                          ELSE IF ~hasContent.v THEN Ignored
                          ELSE LET content == PyGetItem(text, "content")
                                   ids == AtUserIds(data)
                               IN IF IsRaise(content) THEN Failed(content.v)
                                  ELSE IF content.t # "str" THEN Failed("AttributeError")
                                  ELSE IF IsRaise(ids) THEN Failed(ids.v)
                                  ELSE IF StartsWith(Strip(content.v), LlmPrefix)
                                  THEN Route("llm", "",
                                             Get(data, "conversationId", StrV(<<"unknown">>)),
                                             PureCommand(Strip(content.v)), ids)
                                  ELSE Route("command", "", None, Strip(content.v), ids)

\* process_command: the keyword and all whitespace are taken out of the
\* command; the branch taken on what is left
process_command(command) ==
  LET word == SelectSeq(command, LAMBDA a : a \notin {"Test1", WS})
  IN IF word = <<>> THEN "help"
     ELSE IF word = <<TimeWord>> THEN "time"
     ELSE IF StartsWith(word, <<"LLM">>) THEN "llm"
     ELSE "unsupported"

\* JSONResponse({"success": True}), JSONResponse({"success": True,
\* "status": "processing"}), HTTPException(status_code=500)
Success == [status |-> 200, success |-> TRUE, processing |-> FALSE]
Processing == [status |-> 200, success |-> TRUE, processing |-> TRUE]
ServerError == [status |-> 500, success |-> FALSE, processing |-> FALSE]

\* a request just posted: the handler waits for request.json()
NewRequest(body) ==
  [body |-> body, hpc |-> "json", route |-> Ignored, response |-> Pending,
   tpc |-> "none", completions |-> <<>>]

\* a message handed to send_official_message for request i
Message(i, kind) == [req |-> i, kind |-> kind]

\* what smart_assistant gives the task of app.py: the records
\* process_request returns
AssistantOutcomes ==
  { TextResponse(<<"x">>), ErrorResponse("Exception") }
  \cup { ToolResponse(StrV(<<"generate_stock_report">>),
                      call_tool(StrV(<<"generate_stock_report">>),
                                ObjV(KeyV("stock_name", StrV(<<"x">>))), e).ret) : e \in Envs }
  \cup { ToolResponse(StrV(<<"get_weather">>),
                      call_tool(StrV(<<"get_weather">>),
                                ObjV(KeyV("city", StrV(<<"x">>))), e).ret) : e \in Envs }

\* what the upload does: a Qiniu variable is unset, put_data stores the
\* file, put_data is refused, put_data raises
UploadOutcomes == {"env_missing", "uploaded", "rejected", "raise"}

\* result.get(key) of the record smart_assistant returned
ResultGet(r, key) == DictGet(r.v, key, None)

\* the message sync_llm_processing of app.py sends first for a result
FirstMessage(r) ==
  IF IsRaise(r) THEN "error"
  ELSE IF r.t # "record" THEN IF Truthy(r) THEN "result" ELSE "empty"
  ELSE IF ResultGet(r, "type") = "stock_pdf" /\ ResultGet(r, "success") = TRUE
  THEN IF Truthy(ResultGet(r, "pdf_binary")) THEN "pdf_hint" ELSE "pdf_empty"
  ELSE "result"

\* processing_tasks[conversation_id] = {"start_time": ..., "user_input": ...}
Insert(tasks, conversation_id, entry) == (conversation_id :> entry) @@ tasks

\* del processing_tasks[conversation_id]
Delete(tasks, conversation_id) ==
  [k \in DOMAIN tasks \ {conversation_id} |-> tasks[k]]

Status(duration) == IF duration < StuckAfter THEN "running" ELSE "stuck"

\* no listing under way
NoIteration == [busy |-> FALSE, size |-> 0, todo |-> {}, now |-> 0, active_tasks |-> EmptyDict]
----------------------------------------------------------------------------
(* State *)

VARIABLES
  shape,          \* the pieces the reply under extraction was put together from
  llm_response,   \* the reply text handed to extract_tool_call
  tool_data,      \* what extract_tool_call of agent_tools.py returned
  test_tool_data, \* what extract_tool_call of Test.py returned
  action,         \* the action handed to call_tool
  parameters,     \* the parameters handed to call_tool
  env,            \* the configuration and the outside world during the call
  tool_result,    \* what call_tool of agent_tools.py returned, and its trace
  toolkit_result, \* what call_tool of Test.py returned, and its trace
  pc,             \* where process_request of agent_tools.py stands
  calls,          \* the calls process_request has made, in order
  result,         \* what process_request returned
  test_pc,        \* where process_input of Test.py stands
  test_calls,     \* the calls process_input has made, in order
  test_result,    \* what process_input returned
  server,         \* the file the server runs: "main.py" or "app.py"
  ark_key,        \* ARK_API_KEY is set
  reqs,           \* the webhook requests, each with its handler and its task
  processing_tasks, \* the in-flight map, conversation id to entry
  sent,           \* the messages handed to send_official_message, in order
  now,            \* time.time(), in seconds
  iteration,      \* the iteration of debug_tasks over the map
  listing,        \* what debug_tasks returned last
  task_store,     \* the tasks of the default Google task list, by id
  event_store,    \* the events of the primary Google calendar, by id
  store_call,     \* the last call of a deleting tool: what it found, what it returned
  max_history,    \* AgentMemory.max_history
  history,        \* AgentMemory.history
  added,          \* every message handed to add_message so far, in order
  messages,       \* what get_messages returned, until the next add_message
  send_env,       \* the configuration and the answer of DingTalk during one send
  send_result     \* what send_official_message did and returned

\* the state of one request in process_request and in process_input
requestVars == <<pc, calls, result, test_pc, test_calls, test_result>>

\* the state of the webhook server
serverVars == <<server, ark_key, reqs, processing_tasks, sent, now, iteration, listing>>

\* the Google task list and calendar behind the calendar manager
storeVars == <<task_store, event_store, store_call>>

\* the state of one AgentMemory
memoryVars == <<max_history, history, added, messages>>

\* one call of send_official_message
sendVars == <<send_env, send_result>>

libraryVars == <<storeVars, memoryVars, sendVars>>

\* the extractor and the dispatcher
dispatchVars == <<shape, llm_response, tool_data, test_tool_data,
                  action, parameters, env, tool_result, toolkit_result>>

vars == <<dispatchVars, requestVars, serverVars, libraryVars>>

\* no call made yet
NotCalled == Ret(Pending, <<>>)

QuietEnv == [configured |-> TRUE, outcome |-> "ok"]

\* the server not running
NoServer ==
  /\ server = "none"
  /\ ark_key = TRUE
  /\ reqs = <<>>
  /\ processing_tasks = EmptyDict
  /\ sent = <<>>
  /\ now = 0
  /\ iteration = NoIteration
  /\ listing = Pending

\* no deleting tool called, no memory in use, nothing being sent
NoLibrary ==
  /\ task_store = EmptyDict
  /\ event_store = EmptyDict
  /\ store_call = Pending
  /\ max_history = 0
  /\ history = <<>>
  /\ added = <<>>
  /\ messages = Pending
  /\ send_env = Pending
  /\ send_result = Pending

\* no request under way
NoRequest ==
  /\ pc = "idle"
  /\ calls = <<>>
  /\ result = Pending
  /\ test_pc = "idle"
  /\ test_calls = <<>>
  /\ test_result = Pending


----------------------------------------------------------------------------
(* Extraction: each extractor is run once on the reply *)

InitExtract ==
  /\ shape \in Shapes
  /\ llm_response = ShapeText(shape)
  /\ tool_data = Pending
  /\ test_tool_data = Pending
  /\ action = None
  /\ parameters = None
  /\ env = QuietEnv
  /\ tool_result = NotCalled
  /\ toolkit_result = NotCalled
  /\ NoRequest
  /\ NoServer
  /\ NoLibrary

ExtractToolCall ==
  /\ tool_data = Pending
  /\ tool_data' = extract_tool_call(llm_response)
  /\ UNCHANGED <<shape, llm_response, test_tool_data,
                 action, parameters, env, tool_result, toolkit_result,
                 requestVars, serverVars, libraryVars>>

TestExtractToolCall ==
  /\ test_tool_data = Pending
  /\ test_tool_data' = test_extract_tool_call(llm_response)
  /\ UNCHANGED <<shape, llm_response, tool_data,
                 action, parameters, env, tool_result, toolkit_result,
                 requestVars, serverVars, libraryVars>>

NextExtract == ExtractToolCall \/ TestExtractToolCall

SpecExtract == InitExtract /\ [][NextExtract]_vars

----------------------------------------------------------------------------
(* Dispatch: each dispatcher is run once on the invocation *)

NoReply ==
  /\ shape = Shape(<<>>, <<>>, 0, <<>>, <<>>)
  /\ llm_response = <<>>
  /\ tool_data = Pending
  /\ test_tool_data = Pending

InitDispatch ==
  /\ NoReply
  /\ action \in DispatchActions
  /\ parameters \in ParamsFor(action)
  /\ env \in Envs
  /\ tool_result = NotCalled
  /\ toolkit_result = NotCalled
  /\ NoRequest
  /\ NoServer
  /\ NoLibrary

CallTool ==
  /\ tool_result = NotCalled
  /\ tool_result' = call_tool(action, parameters, env)
  /\ UNCHANGED <<shape, llm_response, tool_data, test_tool_data,
                 action, parameters, env, toolkit_result,
                 requestVars, serverVars, libraryVars>>

ToolkitCallTool ==
  /\ toolkit_result = NotCalled
  /\ toolkit_result' = toolkit_call_tool(action, parameters, env)
  /\ UNCHANGED <<shape, llm_response, tool_data, test_tool_data,
                 action, parameters, env, tool_result,
                 requestVars, serverVars, libraryVars>>

NextDispatch == CallTool \/ ToolkitCallTool

SpecDispatch == InitDispatch /\ [][NextDispatch]_vars

----------------------------------------------------------------------------
(* Calculation: call_tool is run once on a calculator invocation *)

InitCalc ==
  /\ NoReply
  /\ action = StrV(<<"calculator">>)
  /\ \E cs \in SpecialExprs \cup UNION {[1..n -> ExprChars] : n \in 0..MaxExprLen} :
       parameters = ObjV(<<"expression">> :> StrV(cs))
  /\ env = QuietEnv
  /\ tool_result = NotCalled
  /\ toolkit_result = NotCalled
  /\ NoRequest
  /\ NoServer
  /\ NoLibrary

NextCalc == CallTool

SpecCalc == InitCalc /\ [][NextCalc]_vars

----------------------------------------------------------------------------
(* One request in process_request and in process_input *)

InitRequest ==
  /\ \E text \in RequestReplies : shape = Shape(text, <<>>, 0, <<>>, <<>>)
  /\ llm_response = <<>>
  /\ tool_data = Pending
  /\ test_tool_data = Pending
  /\ action = None
  /\ parameters = None
  /\ env \in Envs
  /\ tool_result = NotCalled
  /\ toolkit_result = NotCalled
  /\ pc = "start"
  /\ calls = <<>>
  /\ result = Pending
  /\ test_pc = "start"
  /\ test_calls = <<>>
  /\ test_result = Pending
  /\ NoServer
  /\ NoLibrary

\* fault: a failed completion call is made again, once
CreateCompletion_Retry ==
  /\ pc = "start"
  /\ calls' = Append(calls, ChatCompletion)
  /\ \E outcome \in LlmOutcomes :
       IF outcome = "reply"
       THEN /\ llm_response' = Strip(ShapeText(shape))
            /\ pc' = "replied"
            /\ result' = result
       ELSE /\ llm_response' = llm_response
            /\ IF calls = <<>> THEN pc' = "start" /\ result' = result
               ELSE pc' = "done" /\ result' = ErrorResponse("Exception")
  /\ UNCHANGED <<shape, tool_data, test_tool_data, action, parameters, env,
                 tool_result, toolkit_result, test_pc, test_calls, test_result,
                 serverVars, libraryVars>>

\* response = self.client.chat.completions.create(...);
\* llm_response = response.choices[0].message.content.strip()
CreateCompletion ==
  /\ pc = "start"
  /\ calls' = Append(calls, ChatCompletion)
  /\ \E outcome \in LlmOutcomes :
       CASE outcome = "reply" ->
              /\ llm_response' = Strip(ShapeText(shape))
              /\ pc' = "replied"
              /\ result' = result
         [] outcome = "no_content" ->
              /\ llm_response' = llm_response
              /\ pc' = "done"
              /\ result' = ErrorResponse("AttributeError")
         [] outcome = "no_choices" ->
              /\ llm_response' = llm_response
              /\ pc' = "done"
              /\ result' = ErrorResponse("IndexError")
         [] outcome = "raise" ->
              /\ llm_response' = llm_response
              /\ pc' = "done"
              /\ result' = ErrorResponse("Exception")
  /\ UNCHANGED <<shape, tool_data, test_tool_data, action, parameters, env,
                 tool_result, toolkit_result, test_pc, test_calls, test_result,
                 serverVars, libraryVars>>

\* tool_data = self.extract_tool_call(llm_response)
ExtractRequest ==
  /\ pc = "replied"
  /\ calls' = Append(calls, ExtractCall)
  /\ LET r == extract_tool_call(llm_response)
     IN IF r.t = "raise"
        THEN /\ tool_data' = tool_data
             /\ pc' = "done"
             /\ result' = ErrorResponse(r.v)
        ELSE /\ tool_data' = r
             /\ pc' = "extracted"
             /\ result' = result
  /\ UNCHANGED <<shape, llm_response, test_tool_data, action, parameters, env,
                 tool_result, toolkit_result, test_pc, test_calls, test_result,
                 serverVars, libraryVars>>

\* if tool_data: tool_result = await self.call_tool(tool_data["action"],
\* tool_data["parameters"]); return the stock_pdf or the text record
DispatchRequest ==
  /\ pc = "extracted"
  /\ Truthy(tool_data)
  /\ pc' = "done"
  /\ \E a \in {Item(tool_data, "action")}, p \in {Item(tool_data, "parameters")} :
       IF IsRaise(a) \/ IsRaise(p)
       THEN /\ result' = ErrorResponse("KeyError")
            /\ UNCHANGED <<action, parameters, tool_result, calls>>
       ELSE \E r \in {call_tool(a, p, env)} :
              /\ action' = a
              /\ parameters' = p
              /\ tool_result' = r
              /\ calls' = Append(calls, DispatchCall)
              /\ result' = IF r.ret.t = "raise" THEN ErrorResponse(r.ret.v)
                           ELSE ToolResponse(a, r.ret)
  /\ UNCHANGED <<shape, llm_response, tool_data, test_tool_data, env,
                 toolkit_result, test_pc, test_calls, test_result, serverVars, libraryVars>>

\* else: return the reply as text
ReturnReply ==
  /\ pc = "extracted"
  /\ ~Truthy(tool_data)
  /\ pc' = "done"
  /\ result' = TextResponse(llm_response)
  /\ UNCHANGED <<shape, llm_response, tool_data, test_tool_data, action, parameters,
                 env, tool_result, toolkit_result, calls, test_pc, test_calls,
                 test_result, serverVars, libraryVars>>

\* process_input: if not ark_key: return "ARK_API_KEY环境变量未设置"
TestMissingKey ==
  /\ test_pc = "start"
  /\ test_pc' = "done"
  /\ test_result' = Str("ark_key_missing", <<>>)
  /\ UNCHANGED <<shape, llm_response, tool_data, test_tool_data, action, parameters,
                 env, tool_result, toolkit_result, pc, calls, result, test_calls,
                 serverVars, libraryVars>>

\* except Exception as e: return f"Test.py处理失败：{e}"
TestError(e) == Str("test_failed", <<e>>)

\* response = openai.ChatCompletion.create(...); the reply is the stripped
\* content of the first choice, "" without choices; an empty reply is
\* returned at once
TestCreateCompletion ==
  /\ test_pc = "start"
  /\ test_calls' = Append(test_calls, ChatCompletion)
  /\ \E outcome \in LlmOutcomes :
       CASE outcome = "reply" ->
              /\ llm_response' = Strip(ShapeText(shape))
              /\ IF Strip(ShapeText(shape)) = <<>>
                 THEN test_pc' = "done" /\ test_result' = StrV(<<>>)
                 ELSE test_pc' = "replied" /\ test_result' = test_result
         [] outcome = "no_content" ->
              /\ llm_response' = llm_response
              /\ test_pc' = "done"
              /\ test_result' = TestError("AttributeError")
         [] outcome = "no_choices" ->
              /\ llm_response' = llm_response
              /\ test_pc' = "done"
              /\ test_result' = StrV(<<>>)
         [] outcome = "raise" ->
              /\ llm_response' = llm_response
              /\ test_pc' = "done"
              /\ test_result' = TestError("Exception")
  /\ UNCHANGED <<shape, tool_data, test_tool_data, action, parameters, env,
                 tool_result, toolkit_result, pc, calls, result, serverVars, libraryVars>>

\* tool_data = self.extract_tool_call(llm_raw_response)
TestExtractRequest ==
  /\ test_pc = "replied"
  /\ test_calls' = Append(test_calls, ExtractCall)
  /\ LET r == test_extract_tool_call(llm_response)
     IN IF r.t = "raise"
        THEN /\ test_tool_data' = test_tool_data
             /\ test_pc' = "done"
             /\ test_result' = TestError(r.v)
        ELSE /\ test_tool_data' = r
             /\ test_pc' = "extracted"
             /\ test_result' = test_result
  /\ UNCHANGED <<shape, llm_response, tool_data, action, parameters, env,
                 tool_result, toolkit_result, pc, calls, result, serverVars, libraryVars>>

\* if tool_data: return self.toolkit.call_tool(tool_data["action"],
\* tool_data["parameters"])
TestDispatchRequest ==
  /\ test_pc = "extracted"
  /\ Truthy(test_tool_data)
  /\ test_pc' = "done"
  /\ \E a \in {Item(test_tool_data, "action")}, p \in {Item(test_tool_data, "parameters")} :
       IF IsRaise(a) \/ IsRaise(p)
       THEN /\ test_result' = TestError("KeyError")
            /\ UNCHANGED <<toolkit_result, test_calls>>
       ELSE \E r \in {toolkit_call_tool(a, p, env)} :
              /\ toolkit_result' = r
              /\ test_calls' = Append(test_calls, DispatchCall)
              /\ test_result' = IF r.ret.t = "raise" THEN TestError(r.ret.v) ELSE r.ret
  /\ UNCHANGED <<shape, llm_response, tool_data, test_tool_data, action, parameters,
                 env, tool_result, pc, calls, result, serverVars, libraryVars>>

\* else: return llm_raw_response
TestReturnReply ==
  /\ test_pc = "extracted"
  /\ ~Truthy(test_tool_data)
  /\ test_pc' = "done"
  /\ test_result' = StrV(llm_response)
  /\ UNCHANGED <<shape, llm_response, tool_data, test_tool_data, action, parameters,
                 env, tool_result, toolkit_result, pc, calls, result, test_calls,
                 serverVars, libraryVars>>

NextRequest ==
  \/ CreateCompletion
  \/ ExtractRequest
  \/ DispatchRequest
  \/ ReturnReply
  \/ TestMissingKey
  \/ TestCreateCompletion
  \/ TestExtractRequest
  \/ TestDispatchRequest
  \/ TestReturnReply

SpecRequest == InitRequest /\ [][NextRequest]_vars

----------------------------------------------------------------------------
(* The server at work *)

InitServer ==
  /\ NoReply
  /\ action = None
  /\ parameters = None
  /\ env = QuietEnv
  /\ tool_result = NotCalled
  /\ toolkit_result = NotCalled
  /\ NoRequest
  /\ server \in Servers
  /\ ark_key \in BOOLEAN
  /\ reqs = <<>>
  /\ processing_tasks = EmptyDict
  /\ sent = <<>>
  /\ now = 0
  /\ iteration = NoIteration
  /\ listing = Pending
  /\ NoLibrary

\* the variables the server leaves alone
agentVars == <<dispatchVars, requestVars, libraryVars>>

\* a coroutine of app.py is inside self.client.chat.completions.create or a
\* handler's requests call: a call of the synchronous client made on the
\* event loop, which runs nothing else until the call returns
Blocking ==
  \E i \in DOMAIN reqs : reqs[i].tpc = "completing" \/ reqs[i].hpc = "command_assistant"

\* the event loop is not inside debug_tasks nor inside a blocking call
LoopFree == ~iteration.busy /\ ~Blocking

Requests == DOMAIN reqs

\* the threads of thread_pool that are at work
Working == {i \in Requests : reqs[i].tpc \in {"running", "finally", "deleting"}}

\* a POST arrives: webhook starts and waits for the body
WebhookPost ==
  /\ LoopFree
  /\ Len(reqs) < MaxRequests
  /\ \E body \in WebhookBodies(Len(reqs) + 1) : reqs' = Append(reqs, NewRequest(body))
  /\ UNCHANGED <<agentVars, server, ark_key, processing_tasks, sent, now, iteration, listing>>

\* data = await request.json() is there: the shape tests; another shape is
\* answered with success, an exception with status 500, and a message goes
\* on to process_command or to the acknowledgement
WebhookRoute(i) ==
  /\ LoopFree
  /\ reqs[i].hpc = "json"
  /\ LET route == webhook_route(reqs[i].body)
     IN reqs' = [reqs EXCEPT ![i] =
          CASE route.kind = "error" ->
                 [@ EXCEPT !.route = route, !.hpc = "done", !.response = ServerError]
            [] route.kind = "ignore" ->
                 [@ EXCEPT !.route = route, !.hpc = "done", !.response = Success]
            [] route.kind = "command" -> [@ EXCEPT !.route = route, !.hpc = "send_command"]
            [] route.kind = "llm" -> [@ EXCEPT !.route = route, !.hpc = "send_ack"]]
  /\ UNCHANGED <<agentVars, server, ark_key, processing_tasks, sent, now, iteration, listing>>

\* result = process_command(command); await send_official_message(result);
\* return JSONResponse({"success": True})
WebhookCommand(i) ==
  /\ LoopFree
  /\ reqs[i].hpc = "send_command"
  /\ \/ /\ process_command(reqs[i].route.user_input) = "llm"
        /\ server = "app.py"
        /\ sent' = sent
        /\ reqs' = [reqs EXCEPT ![i] =
             [@ EXCEPT !.hpc = "command_assistant",
                       !.completions = Append(@, "handler")]]
     \/ /\ sent' = Append(sent, Message(i, "command"))
        /\ reqs' = [reqs EXCEPT ![i] = [@ EXCEPT !.hpc = "done", !.response = Success]]
  /\ UNCHANGED <<agentVars, server, ark_key, processing_tasks, now, iteration, listing>>

\* response = await agent_tools.smart_assistant(pure_command) of app.py
\* returns in process_command: the answer is sent and the response returned
CommandAssistant(i) ==
  /\ ~iteration.busy
  /\ reqs[i].hpc = "command_assistant"
  /\ sent' = Append(sent, Message(i, "command"))
  /\ reqs' = [reqs EXCEPT ![i] = [@ EXCEPT !.hpc = "done", !.response = Success]]
  /\ UNCHANGED <<agentVars, server, ark_key, processing_tasks, now, iteration, listing>>

\* fault: the acknowledgement is left out
Acknowledgement_None(i) == <<>>

\* await send_official_message("Test1：正在思考中，请稍等片刻... ⏳")
Acknowledgement(i) == <<Message(i, "ack")>>

\* background_tasks.add_task(async_process_llm_message, ...) of main.py:
\* run once the response is out
background_add_task == "scheduled"

\* asyncio.create_task(sync_llm_processing(...)) of app.py
asyncio_create_task == "created"

\* the acknowledgement is out: the background work is handed over and the
\* response returned
WebhookAck(i) ==
  /\ LoopFree
  /\ reqs[i].hpc = "send_ack"
  /\ sent' = sent \o Acknowledgement(i)
  /\ reqs' = [reqs EXCEPT ![i] =
       [@ EXCEPT !.hpc = "done", !.response = Processing,
                 !.tpc = IF server = "main.py" THEN background_add_task ELSE asyncio_create_task]]
  /\ UNCHANGED <<agentVars, server, ark_key, processing_tasks, now, iteration, listing>>

\* async_process_llm_message of main.py: the entry is put into the map
\* with start_time = time.time() and sync_llm_processing handed to
\* thread_pool
AsyncProcessLlmMessage(i) ==
  /\ LoopFree
  /\ server = "main.py"
  /\ reqs[i].tpc = "scheduled"
  /\ \E d \in Elapsed \ {2 * TickSeconds} :
       /\ now + d <= MaxNow
       /\ now' = now + d
  /\ processing_tasks' =
       Insert(processing_tasks, reqs[i].route.conversation_id,
              [start_time |-> now', user_input |-> reqs[i].route.user_input])
  /\ reqs' = [reqs EXCEPT ![i] = [@ EXCEPT !.tpc = "queued"]]
  /\ UNCHANGED <<agentVars, server, ark_key, sent, iteration, listing>>

\* a thread of the pool takes the task
ThreadStart(i) ==
  /\ server = "main.py"
  /\ reqs[i].tpc = "queued"
  /\ Cardinality(Working) < max_workers
  /\ reqs' = [reqs EXCEPT ![i] = [@ EXCEPT !.tpc = "running"]]
  /\ UNCHANGED <<agentVars, server, ark_key, processing_tasks, sent, now, iteration, listing>>

\* fault: a task waits for the earlier tasks of its conversation
MayReply_InOrder(i) ==
  \A j \in 1..(i - 1) :
    (reqs[j].route.kind = "llm"
       /\ reqs[j].route.conversation_id = reqs[i].route.conversation_id)
      => reqs[j].tpc \in {"done", "failed"}

\* nothing holds a task back: no lock, no queue per conversation
MayReply(i) == TRUE

\* sync_llm_processing of main.py, the try: without ARK_API_KEY the error
\* message, else result = agent_tools.smart_assistant(user_input), a
\* coroutine object, and f"Test1：{result}" is sent
SyncLlmProcessing(i) ==
  /\ server = "main.py"
  /\ reqs[i].tpc = "running"
  /\ MayReply(i)
  /\ sent' = Append(sent, Message(i, IF ark_key THEN "result" ELSE "missing_key"))
  /\ reqs' = [reqs EXCEPT ![i] =
       [@ EXCEPT !.tpc = "finally"]]
  /\ UNCHANGED <<agentVars, server, ark_key, processing_tasks, now, iteration, listing>>

\* fault: the entry is left in the map
FinallyCheck_Skip(i) ==
  /\ server = "main.py"
  /\ reqs[i].tpc = "finally"
  /\ reqs' = [reqs EXCEPT ![i] = [@ EXCEPT !.tpc = "done"]]
  /\ UNCHANGED <<agentVars, server, ark_key, processing_tasks, sent, now, iteration, listing>>

\* finally: if conversation_id in processing_tasks
FinallyCheck(i) ==
  /\ server = "main.py"
  /\ reqs[i].tpc = "finally"
  /\ reqs' = [reqs EXCEPT ![i] =
       [@ EXCEPT !.tpc = IF reqs[i].route.conversation_id \in DOMAIN processing_tasks
                         THEN "deleting" ELSE "done"]]
  /\ UNCHANGED <<agentVars, server, ark_key, processing_tasks, sent, now, iteration, listing>>

\* del processing_tasks[conversation_id]: KeyError when another thread has
\* deleted the key since the test
FinallyDelete(i) ==
  /\ server = "main.py"
  /\ reqs[i].tpc = "deleting"
  /\ IF reqs[i].route.conversation_id \in DOMAIN processing_tasks
     THEN /\ processing_tasks' = Delete(processing_tasks, reqs[i].route.conversation_id)
          /\ reqs' = [reqs EXCEPT ![i] = [@ EXCEPT !.tpc = "done"]]
     ELSE /\ processing_tasks' = processing_tasks
          /\ reqs' = [reqs EXCEPT ![i] = [@ EXCEPT !.tpc = "failed"]]
  /\ UNCHANGED <<agentVars, server, ark_key, sent, now, iteration, listing>>

\* finally of app.py: test and deletion in one segment of the event loop
Finally(tasks, conversation_id) ==
  IF conversation_id \in DOMAIN tasks THEN Delete(tasks, conversation_id) ELSE tasks

\* the task of app.py starts: without ARK_API_KEY the error message is
\* sent, else smart_assistant is awaited: DeepseekAgent() raises, or
\* process_request enters the chat-completion call
TaskStart(i) ==
  /\ LoopFree
  /\ server = "app.py"
  /\ reqs[i].tpc = "created"
  /\ \E r \in IF ark_key THEN {"raise", "call"} ELSE {"missing_key"} :
       reqs' = [reqs EXCEPT ![i] =
         CASE r = "missing_key" -> [@ EXCEPT !.tpc = "send_missing_key"]
           [] r = "raise" -> [@ EXCEPT !.tpc = "send_error"]
           [] r = "call" -> [@ EXCEPT !.tpc = "completing",
                                      !.completions = Append(@, "task")]]
  /\ UNCHANGED <<agentVars, server, ark_key, processing_tasks, sent, now, iteration, listing>>

\* the chat-completion call and the handler's call are over:
\* result = await agent_tools.smart_assistant(user_input) returns, and the
\* branch taken on the result up to its first message
SmartAssistant(i) ==
  /\ ~iteration.busy
  /\ server = "app.py"
  /\ reqs[i].tpc = "completing"
  /\ \E r \in AssistantOutcomes :
       reqs' = [reqs EXCEPT ![i] =
         [@ EXCEPT !.tpc = "send_" \o FirstMessage(r)]]
  /\ UNCHANGED <<agentVars, server, ark_key, processing_tasks, sent, now, iteration, listing>>

\* the kinds of message a task of app.py can be sending
TaskMessages ==
  {"missing_key", "result", "empty", "error", "pdf_hint", "pdf_empty", "file_url"}

\* await send_official_message(...) returns in the task: after the hint the
\* upload follows, after every other message the finally clause
SendOfficialMessage(i) ==
  /\ LoopFree
  /\ server = "app.py"
  /\ \E kind \in TaskMessages :
       /\ reqs[i].tpc = "send_" \o kind
       /\ sent' = Append(sent, Message(i, kind))
       /\ IF kind = "pdf_hint"
          THEN /\ reqs' = [reqs EXCEPT ![i] = [@ EXCEPT !.tpc = "upload"]]
               /\ processing_tasks' = processing_tasks
          ELSE /\ reqs' = [reqs EXCEPT ![i] = [@ EXCEPT !.tpc = "done"]]
               /\ processing_tasks' = Finally(processing_tasks, reqs[i].route.conversation_id)
  /\ UNCHANGED <<agentVars, server, ark_key, now, iteration, listing>>

\* await upload_file_to_Qiniu(...): an unset variable raises before the
\* try and reaches the except clause of the task; a stored file is followed
\* by the link message; a refused or failed upload returns None and the
\* task goes on to its finally clause
UploadFileToQiniu(i) ==
  /\ LoopFree
  /\ server = "app.py"
  /\ reqs[i].tpc = "upload"
  /\ \E outcome \in UploadOutcomes :
       CASE outcome = "env_missing" ->
              /\ reqs' = [reqs EXCEPT ![i] = [@ EXCEPT !.tpc = "send_error"]]
              /\ processing_tasks' = processing_tasks
         [] outcome = "uploaded" ->
              /\ reqs' = [reqs EXCEPT ![i] = [@ EXCEPT !.tpc = "send_file_url"]]
              /\ processing_tasks' = processing_tasks
         [] outcome \in {"rejected", "raise"} ->
              /\ reqs' = [reqs EXCEPT ![i] = [@ EXCEPT !.tpc = "done"]]
              /\ processing_tasks' = Finally(processing_tasks, reqs[i].route.conversation_id)
  /\ UNCHANGED <<agentVars, server, ark_key, sent, now, iteration, listing>>

\* GET /debug/tasks, followed once: now = time.time() and the iteration
\* over processing_tasks.items() begins
DebugTasks ==
  /\ LoopFree
  /\ listing = Pending
  /\ \E d \in Elapsed :
       /\ now + d <= MaxNow
       /\ now' = now + d
  /\ iteration' = [busy |-> TRUE, size |-> Cardinality(DOMAIN processing_tasks),
                   todo |-> DOMAIN processing_tasks, now |-> now',
                   active_tasks |-> EmptyDict]
  /\ UNCHANGED <<agentVars, server, ark_key, reqs, processing_tasks, sent, listing>>

\* the next item of the iteration: RuntimeError when the size of the map
\* has changed, the response when the items are used up, else the entry
\* of the item with its duration and status
DebugTasksNext ==
  /\ iteration.busy
  /\ IF Cardinality(DOMAIN processing_tasks) # iteration.size
     THEN /\ listing' = Raise("RuntimeError")
          /\ iteration' = NoIteration
     ELSE IF iteration.todo = {}
     THEN /\ listing' = Dict(iteration.active_tasks)
          /\ iteration' = NoIteration
     ELSE /\ listing' = listing
          /\ \E task_id \in iteration.todo :
               LET task_info == processing_tasks[task_id]
                   duration == iteration.now - task_info.start_time
               IN iteration' =
                    [iteration EXCEPT
                       !.todo = @ \ {task_id},
                       !.active_tasks =
                          (task_id :> [user_input |-> task_info.user_input,
                                       duration_seconds |-> duration,
                                       status |-> Status(duration)]) @@ @]
  /\ UNCHANGED <<agentVars, server, ark_key, reqs, processing_tasks, sent, now>>

\* the steps of the background task of request i
Background(i) ==
  \/ AsyncProcessLlmMessage(i)
  \/ ThreadStart(i)
  \/ SyncLlmProcessing(i)
  \/ FinallyCheck(i)
  \/ FinallyDelete(i)
  \/ TaskStart(i)
  \/ SmartAssistant(i)
  \/ SendOfficialMessage(i)
  \/ UploadFileToQiniu(i)

NextServer ==
  \/ WebhookPost
  \/ \E i \in Requests : WebhookRoute(i)
  \/ \E i \in Requests : WebhookCommand(i)
  \/ \E i \in Requests : CommandAssistant(i)
  \/ \E i \in Requests : WebhookAck(i)
  \/ \E i \in Requests : AsyncProcessLlmMessage(i)
  \/ \E i \in Requests : ThreadStart(i)
  \/ \E i \in Requests : SyncLlmProcessing(i)
  \/ \E i \in Requests : FinallyCheck(i)
  \/ \E i \in Requests : FinallyDelete(i)
  \/ \E i \in Requests : TaskStart(i)
  \/ \E i \in Requests : SmartAssistant(i)
  \/ \E i \in Requests : SendOfficialMessage(i)
  \/ \E i \in Requests : UploadFileToQiniu(i)
  \/ DebugTasks
  \/ DebugTasksNext

SpecServer == InitServer /\ [][NextServer]_vars

----------------------------------------------------------------------------
(* GoogleCalendarManager of agent_tools.py on a task list and a calendar  *)
(*                                                                         *)
(* Times are whole hours.  An instant is counted in UTC; a local time is   *)
(* counted in Asia/Shanghai, eight hours ahead.  Day d begins at local     *)
(* time 24 * d.                                                            *)

MaxDay == 3
MaxTasks == 2
MaxEvents == 1

Days == 1..MaxDay
TaskIds == 1..MaxTasks
EventIds == 1..MaxEvents

\* the texts "YYYY-MM-DD" of the days, in order
DateTexts == <<"2025-10-01", "2025-10-02", "2025-10-03", "2025-10-04", "2025-10-05">>
DateStr(d) == StrV(<<DateTexts[d]>>)

\* titles of tasks and summaries of events
Titles == {<<"a">>, <<"A", "b">>}

\* the 'due' a task of the Google task list carries: none, or an instant at
\* 00:00 UTC of its day (the list keeps the date only), or with a time of day
DueInstants == {24 * d + h : d \in Days, h \in {0, 2}}
Dues == {None} \cup {NumV(u) : u \in DueInstants}

TaskRecords == [title : Titles, due : Dues, status : {"needsAction", "completed"}]
EventRecords == [summary : Titles, start : {NumV(24 * d) : d \in {1, MaxDay}}]

\* the stores: every set of ids, every record for each id
Stores(ids, records) == UNION {[s -> records] : s \in SUBSET ids}

\* datetime.now(self.beijing_tz), as an instant
Clocks == {24 * d : d \in Days}

\* due_dt.astimezone(self.beijing_tz): the local time of an instant
astimezone(u) == u + 8

\* the local day a local time lies on
DayOf(local) == local \div 24

\* datetime.strptime(text, "%Y-%m-%d"), then localize: 00:00 of the day
strptime_date(v) ==
  IF \E d \in Days : v = DateStr(d)
  THEN NumV(24 * (CHOOSE d \in Days : v = DateStr(d)))
  ELSE Raise("ValueError")

\* timedelta(days=days) added to a local time
plus_days(local, days) == NumV(local.v + 24 * days)

\* one formatted task of query_tasks: 'due' is the local time as text
\* '%Y-%m-%d %H:%M', or "无截止日期"
formatted_task(task) ==
  [title |-> task.title,
   due |-> IF task.due = None THEN None ELSE NumV(astimezone(task.due.v))]

\* GoogleCalendarManager.query_tasks: the tasks().list request and the
\* formatted tasks; request is what the request does
gcm_query_tasks(show_completed, store, request) ==
  IF request = "HttpError"
  THEN [success |-> FALSE, error |-> Str("manager_failed", <<"HttpError">>)]
  ELSE LET shown == {id \in DOMAIN store :
                       Truthy(show_completed) \/ store[id].status # "completed"}
       IN IF shown = {}
          THEN [success |-> TRUE, tasks |-> EmptyDict, message |-> Str("nothing_found", <<>>)]
          ELSE [success |-> TRUE, tasks |-> [id \in shown |-> formatted_task(store[id])],
                count |-> Cardinality(shown), message |-> Str("found", <<Cardinality(shown)>>)]

\* GoogleCalendarManager.query_events: events().list with timeMin = now and
\* timeMax = now + days
gcm_query_events(days, store, clock, request) ==
  IF request = "HttpError"
  THEN [success |-> FALSE, error |-> Str("manager_failed", <<"HttpError">>)]
  ELSE LET shown == {id \in DOMAIN store :
                       clock <= store[id].start.v /\ store[id].start.v <= clock + 24 * days.v}
       IN IF shown = {}
          THEN [success |-> TRUE, events |-> EmptyDict, message |-> Str("nothing_found", <<>>)]
          ELSE [success |-> TRUE, events |-> [id \in shown |-> [summary |-> store[id].summary]],
                count |-> Cardinality(shown), message |-> Str("found", <<Cardinality(shown)>>)]

\* what a deleting method did: the record it returned and the ids whose
\* delete request went through
Deleted(ret, ids) == [ret |-> ret, deleted |-> ids]

\* the loop over the matching items: delete_task / delete_event of each,
\* counting the successes; failing holds the ids whose request answers
\* HttpError
delete_matching(matching, failing, none_found) ==
  IF matching = {}
  THEN Deleted([success |-> FALSE, error |-> Str(none_found, <<>>)], {})
  ELSE Deleted([success |-> TRUE,
                message |-> Str("deleted_count", <<Cardinality(matching \ failing)>>),
                deleted_count |-> Cardinality(matching \ failing)],
               matching \ failing)

\* keyword.lower() in text.lower()
KeywordIn(keyword, text) == Contains(Lower(text), Lower(keyword))

\* GoogleCalendarManager.delete_task_by_title
gcm_delete_task_by_title(title_keyword, store, request, failing) ==
  LET found == gcm_query_tasks(BoolV(TRUE), store, request)
  IN IF ~found.success THEN Deleted(found, {})
     ELSE IF title_keyword.t # "str" /\ DOMAIN found.tasks # {}
     THEN Deleted([success |-> FALSE, error |-> Str("manager_error", <<"AttributeError">>)], {})
     ELSE delete_matching({id \in DOMAIN found.tasks :
                             KeywordIn(title_keyword.v, found.tasks[id].title)},
                          failing, "no_match")

\* GoogleCalendarManager.delete_event_by_summary
gcm_delete_event_by_summary(summary, days, store, clock, request, failing) ==
  IF days.t # "num"
  THEN Deleted([success |-> FALSE, error |-> Str("manager_error", <<"TypeError">>)], {})
  ELSE LET found == gcm_query_events(days, store, clock, request)
       IN IF ~found.success THEN Deleted(found, {})
          ELSE IF summary.t # "str" /\ DOMAIN found.events # {}
          THEN Deleted([success |-> FALSE,
                        error |-> Str("manager_error", <<"AttributeError">>)], {})
          ELSE delete_matching({id \in DOMAIN found.events :
                                  KeywordIn(summary.v, found.events[id].summary)},
                               failing, "no_match")

\* the two ends of the range as local times, or the exception of parsing:
\* a text is parsed as a date, a missing start is now, a missing end is 30
\* days after the start, anything else has no tzinfo
range_ends(start_date, end_date, clock) ==
  LET s0 == IF start_date.t = "str" THEN strptime_date(start_date) ELSE start_date
      e0 == IF end_date.t = "str" THEN strptime_date(end_date) ELSE end_date
      s1 == IF Truthy(s0) THEN s0 ELSE NumV(astimezone(clock))
  IN IF IsRaise(s0) THEN s0
     ELSE IF IsRaise(e0) THEN e0
     ELSE IF s1.t # "num" THEN Raise("AttributeError")
     ELSE IF ~Truthy(e0) THEN [t |-> "range", start |-> s1, end |-> plus_days(s1, 30)]
     ELSE IF e0.t # "num" THEN Raise("AttributeError")
     ELSE [t |-> "range", start |-> s1, end |-> e0]

\* GoogleCalendarManager.delete_tasks_by_time_range
gcm_delete_tasks_by_time_range(start_date, end_date, show_completed, store, clock, request, failing) ==
  LET ends == range_ends(start_date, end_date, clock)
  IN IF IsRaise(ends)
     THEN Deleted([success |-> FALSE, error |-> Str("manager_error", <<ends.v>>)], {})
     ELSE LET found == gcm_query_tasks(show_completed, store, request)
          IN IF ~found.success THEN Deleted(found, {})
             ELSE delete_matching(
                    {id \in DOMAIN found.tasks :
                       /\ found.tasks[id].due # None
                       /\ ends.start.v <= found.tasks[id].due.v
                       /\ found.tasks[id].due.v <= ends.end.v},
                    failing, "no_task_in_range")

\* a store without the deleted ids
Without(store, ids) == [id \in DOMAIN store \ ids |-> store[id]]

\* the parameters the model hands to the deleting tools
KeywordValues == {StrV(<<>>), StrV(<<"a">>), StrV(<<"b">>), StrV(<<"x">>), NumV(5)}
KeywordParams(key) == {ObjV(EmptyDict)} \cup {ObjV(<<key>> :> v) : v \in KeywordValues}
DateValues == {None, StrV(<<"x">>)} \cup {DateStr(d) : d \in Days}
RangeParams ==
  {ObjV((<<"start_date">> :> s) @@ (<<"end_date">> :> e)) : s, e \in DateValues}
    \cup {ObjV((<<"start_date">> :> DateStr(1)) @@ (<<"end_date">> :> DateStr(MaxDay))
               @@ (<<"show_completed">> :> BoolV(FALSE)))}
    \cup {ObjV(EmptyDict)}

Requests2 == {"ok", "HttpError"}

InitStore ==
  /\ NoReply
  /\ action = None
  /\ parameters = None
  /\ env = QuietEnv
  /\ tool_result = NotCalled
  /\ toolkit_result = NotCalled
  /\ NoRequest
  /\ NoServer
  /\ task_store \in Stores(TaskIds, TaskRecords)
  /\ event_store \in Stores(EventIds, EventRecords)
  /\ store_call = Pending
  /\ max_history = 0
  /\ history = <<>>
  /\ added = <<>>
  /\ messages = Pending
  /\ send_env = Pending
  /\ send_result = Pending

\* the record of one call
StoreCall(name, p, request, failing, r, answer) ==
  [action |-> name, parameters |-> p, tasks |-> task_store, events |-> event_store,
   request |-> request, failing |-> failing, result |-> r.ret, answer |-> answer]

\* call_tool with action delete_task_by_title, down to the task list
DeleteTaskByTitle ==
  /\ store_call = Pending
  /\ \E p \in KeywordParams("title_keyword"), request \in Requests2,
        failing \in SUBSET DOMAIN task_store :
       \E r \in {gcm_delete_task_by_title(Get(p, "title_keyword", StrV(<<>>)),
                                          task_store, request, failing)} :
         /\ task_store' = Without(task_store, r.deleted)
         /\ store_call' = StoreCall("delete_task_by_title", p, request, failing, r,
                            MessageOrError(Ret(Dict(r.ret), <<>>), Str("deleted", <<>>)).ret)
  /\ UNCHANGED <<event_store, dispatchVars, requestVars, serverVars, memoryVars, sendVars>>

\* call_tool with action delete_event_by_summary, down to the calendar
DeleteEventBySummary ==
  /\ store_call = Pending
  /\ \E p \in KeywordParams("summary"), clock \in Clocks, request \in Requests2,
        failing \in SUBSET DOMAIN event_store :
       \E r \in {gcm_delete_event_by_summary(Get(p, "summary", StrV(<<>>)),
                                             Get(p, "days", NumV(30)),
                                             event_store, clock, request, failing)} :
         /\ event_store' = Without(event_store, r.deleted)
         /\ store_call' = StoreCall("delete_event_by_summary", p, request, failing, r,
                            MessageOrError(Ret(Dict(r.ret), <<>>), Str("deleted", <<>>)).ret)
  /\ UNCHANGED <<task_store, dispatchVars, requestVars, serverVars, memoryVars, sendVars>>

\* call_tool with action delete_tasks_by_time_range, down to the task list
DeleteTasksByTimeRange ==
  /\ store_call = Pending
  /\ \E p \in RangeParams, clock \in Clocks, request \in Requests2,
        failing \in SUBSET DOMAIN task_store :
       \E r \in {gcm_delete_tasks_by_time_range(Get(p, "start_date", None),
                                                Get(p, "end_date", None),
                                                Get(p, "show_completed", BoolV(TRUE)),
                                                task_store, clock, request, failing)} :
         /\ task_store' = Without(task_store, r.deleted)
         /\ store_call' = StoreCall("delete_tasks_by_time_range", p, request, failing, r,
                            ReportResult(Ret(Dict(r.ret), <<>>),
                                         Str("tasks_range_deleted", <<>>),
                                         Str("tasks_range_failed", <<>>)).ret)
  /\ UNCHANGED <<event_store, dispatchVars, requestVars, serverVars, memoryVars, sendVars>>

NextStore == DeleteTaskByTitle \/ DeleteEventBySummary \/ DeleteTasksByTimeRange

SpecStore == InitStore /\ [][NextStore]_vars

----------------------------------------------------------------------------
(* AgentMemory of Test.py *)

\* AgentMemory.__init__(self, max_history=10)
DefaultMaxHistory == 10

\* the add_message calls followed on one memory
MaxAdds == 12

\* the sizes a memory is built with
MaxHistories == {1, 2, DefaultMaxHistory}

Roles == {"user", "assistant"}
Contents == {"text"}

MemoryMessage(role, content) == [role |-> role, content |-> content]

\* {"role": "system", "content": self.system_prompt}
SystemMessage == MemoryMessage("system", "system_prompt")

\* a[-k:] of a list
LastItems(a, k) ==
  IF k = 0 THEN a
  ELSE IF k > 0 THEN SubSeq(a, IF Len(a) > k THEN Len(a) - k + 1 ELSE 1, Len(a))
  ELSE From(a, IF -k > Len(a) THEN Len(a) ELSE -k)

\* fault: the list is never cut
add_message_NoTruncate(h, max, role, content) == Append(h, MemoryMessage(role, content))

\* AgentMemory.add_message: append, then keep the newest max_history
add_message(h, max, role, content) ==
  LET appended == Append(h, MemoryMessage(role, content))
  IN IF Len(appended) > max THEN LastItems(appended, max) ELSE appended

\* AgentMemory.get_messages
get_messages(h) == <<SystemMessage>> \o h

InitMemory ==
  /\ NoReply
  /\ action = None
  /\ parameters = None
  /\ env = QuietEnv
  /\ tool_result = NotCalled
  /\ toolkit_result = NotCalled
  /\ NoRequest
  /\ NoServer
  /\ task_store = EmptyDict
  /\ event_store = EmptyDict
  /\ store_call = Pending
  /\ max_history \in MaxHistories
  /\ history = <<>>
  /\ added = <<>>
  /\ messages = Pending
  /\ send_env = Pending
  /\ send_result = Pending

AddMessage ==
  /\ Len(added) < MaxAdds
  /\ \E role \in Roles, content \in Contents :
       /\ history' = add_message(history, max_history, role, content)
       /\ added' = Append(added, MemoryMessage(role, content))
  /\ messages' = Pending
  /\ UNCHANGED <<max_history, dispatchVars, requestVars, serverVars, storeVars, sendVars>>

GetMessages ==
  /\ messages = Pending
  /\ messages' = [t |-> "list", v |-> get_messages(history)]
  /\ UNCHANGED <<max_history, history, added, dispatchVars, requestVars, serverVars,
                 storeVars, sendVars>>

NextMemory == AddMessage \/ GetMessages

SpecMemory == InitMemory /\ [][NextMemory]_vars

----------------------------------------------------------------------------
(* send_official_message of main.py and of app.py *)

\* an environment variable: unset, set to the empty text, set
Settings == {None, StrV(<<>>), StrV(<<"s">>)}

\* what requests.post does: an exception (timeout, no connection), or a
\* response with a status code and a body
Responses ==
  {Raise("RequestException"),
   [t |-> "response", status_code |-> 500, body |-> StrV(<<"x">>)],
   [t |-> "response", status_code |-> 200, body |-> StrV(<<"x">>)],
   [t |-> "response", status_code |-> 200, body |-> ArrV(<<>>)],
   [t |-> "response", status_code |-> 200, body |-> ObjV(EmptyDict)],
   [t |-> "response", status_code |-> 200, body |-> ObjV(<<"errcode">> :> NumV(0))],
   [t |-> "response", status_code |-> 200, body |-> ObjV(<<"errcode">> :> NumV(310000))]}

\* server: the file; ROBOT_SECRET: the module constant app.py reads when it
\* is imported; token, secret: os.environ at the call; post: the answer
SendEnvs ==
  [server : Servers, ROBOT_SECRET : Settings, token : Settings, secret : Settings,
   post : Responses]

\* secret.encode('utf-8') and the HMAC: only a text has encode
generate_dingtalk_signature(secret) ==
  IF secret.t = "str" THEN StrV(<<"sign">>) ELSE Raise("AttributeError")

\* resp.json(): the body parsed, a text that is no JSON raises
resp_json(body) == IF body.t = "str" THEN Raise("JSONDecodeError") ELSE body

\* from the POST on: status code, resp.json(), result.get('errcode') == 0
send_post(e) ==
  IF IsRaise(e.post) THEN Ret(e.post, <<"requests.post">>)
  ELSE IF e.post.status_code # 200 THEN Ret(BoolV(FALSE), <<"requests.post">>)
  ELSE IF IsRaise(resp_json(e.post.body)) THEN Ret(resp_json(e.post.body), <<"requests.post">>)
  ELSE IF ~HasGet(e.post.body) THEN Ret(Raise("AttributeError"), <<"requests.post">>)
  ELSE Ret(BoolV(Get(e.post.body, "errcode", None) = NumV(0)), <<"requests.post">>)

\* the body of the try: main.py tests token and secret first and signs with
\* the secret it just read; app.py signs with ROBOT_SECRET first
send_try(e) ==
  IF e.server = "app.py" /\ IsRaise(generate_dingtalk_signature(e.ROBOT_SECRET))
  THEN Ret(generate_dingtalk_signature(e.ROBOT_SECRET), <<>>)
  ELSE IF ~Truthy(e.token) \/ ~Truthy(e.secret) THEN Ret(BoolV(FALSE), <<>>)
  ELSE send_post(e)

\* fault: no except clause
send_except_Uncaught(r) == r

\* except Exception as e: return False
send_except(r) == IF IsRaise(r.ret) THEN Ret(BoolV(FALSE), r.trace) ELSE r

send_official_message(e) == send_except(send_try(e))

InitSend ==
  /\ NoReply
  /\ action = None
  /\ parameters = None
  /\ env = QuietEnv
  /\ tool_result = NotCalled
  /\ toolkit_result = NotCalled
  /\ NoRequest
  /\ NoServer
  /\ task_store = EmptyDict
  /\ event_store = EmptyDict
  /\ store_call = Pending
  /\ max_history = 0
  /\ history = <<>>
  /\ added = <<>>
  /\ messages = Pending
  /\ send_env \in SendEnvs
  /\ send_result = Pending

SendMessage ==
  /\ send_result = Pending
  /\ send_result' = send_official_message(send_env)
  /\ UNCHANGED <<send_env, dispatchVars, requestVars, serverVars, storeVars, memoryVars>>

NextSend == SendMessage

SpecSend == InitSend /\ [][NextSend]_vars

----------------------------------------------------------------------------
(* Properties of the extractors *)

\* a mapping that holds an action field and a parameters field
ValidInvocation(v) ==
  /\ v.t = "obj"
  /\ <<"action">> \in DOMAIN v.v
  /\ <<"parameters">> \in DOMAIN v.v

\* None or a validated invocation: what a call that returned normally gives
NormalReturn(r) == r.t = "None" \/ ValidInvocation(r)

HasFence(text) == \E i \in 1..Len(text) : text[i] = FENCE

RECURSIVE Trimmed(_)
Trimmed(text) ==
  IF text # <<>> /\ text[1] = WS THEN Trimmed(SubSeq(text, 2, Len(text)))
  ELSE IF text # <<>> /\ text[Len(text)] = WS THEN Trimmed(SubSeq(text, 1, Len(text) - 1))
  ELSE text

BraceShaped(text) ==
  /\ Trimmed(text) # <<>>
  /\ Trimmed(text)[1] = "{"
  /\ Trimmed(text)[Len(Trimmed(text))] = "}"

\* the reply is exactly one body, no fence and nothing around it
IsBare(sh) ==
  sh.body # 0 /\ sh.pre = <<>> /\ sh.open = <<>> /\ sh.close = <<>> /\ sh.suf = <<>>

\* the reply is exactly one closed block tagged json
IsJsonBlock(sh) ==
  /\ sh.body # 0 /\ sh.pre = <<>> /\ sh.suf = <<>>
  /\ sh.open \in {FenceJson, FenceJson \o <<WS>>}
  /\ sh.close \in {<<FENCE>>, <<WS, FENCE>>}

\* the reply holds exactly one closed fenced block, with or without prose around it
HasOneBlock(sh) ==
  /\ sh.body # 0
  /\ sh.pre \in {<<>>, <<"x">>, <<WS>>, <<"x", WS>>}
  /\ sh.open # <<>>
  /\ sh.close # <<>>
  /\ sh.suf \in {<<>>, <<"x">>, <<WS>>}
  /\ ~HasFence(Bodies[sh.body].text)

BothDone == tool_data # Pending /\ test_tool_data # Pending

\* C1: on every reply (empty, prose, fenced, unfenced, malformed JSON, JSON
\* that is no object) each extractor returns a validated invocation or
\* None; no call ends by raising.
C1_ExtractNeverRaises ==
  /\ tool_data # Pending => NormalReturn(tool_data)
  /\ test_tool_data # Pending => NormalReturn(test_tool_data)

C1_Witness ==
  /\ BothDone
  /\ IsJsonBlock(shape)
  /\ Bodies[shape.body].kind = "malformed"
  /\ Bodies[shape.body].text # <<>>
  /\ tool_data = None
  /\ test_tool_data = None

\* C2: a reply that is exactly a bare, unfenced JSON object holding action
\* and parameters is returned as that parsed invocation.
C2_BareObjectExtracted ==
  (IsBare(shape) /\ Bodies[shape.body].kind = "invocation" /\ tool_data # Pending)
    => tool_data = Bodies[shape.body].val

\* C3 as stated: a reply that is a closed json-tagged block holding an
\* object with action and parameters yields that object.
C3_JsonBlockExtracted ==
  (IsJsonBlock(shape) /\ Bodies[shape.body].kind = "invocation" /\ tool_data # Pending)
    => tool_data = Bodies[shape.body].val

\* C3 (amended): a reply that is a closed json-tagged block holding an
\* object with action and parameters, whose text does not itself contain
\* the fence marker, yields that object from both extractors: the fence and
\* the tag are stripped, action and parameters are those of the block.
C3_JsonBlockWithoutInnerFence ==
  (IsJsonBlock(shape) /\ Bodies[shape.body].kind = "invocation"
     /\ ~HasFence(Bodies[shape.body].text))
    => /\ tool_data # Pending => tool_data = Bodies[shape.body].val
       /\ test_tool_data # Pending => test_tool_data = Bodies[shape.body].val

C3_Witness ==
  /\ BothDone
  /\ IsJsonBlock(shape)
  /\ shape.open = FenceJson \o <<WS>>
  /\ Bodies[shape.body].kind = "invocation"
  /\ tool_data = Bodies[shape.body].val
  /\ tool_data.v[<<"parameters">>] = ObjV(<<"x">> :> NumV(11))

\* C4: a reply whose one fenced block holds syntactically invalid JSON
\* gives None, the same value as a reply without any instruction, and
\* does not raise.
C4_MalformedBlockIsNone ==
  (HasOneBlock(shape) /\ Bodies[shape.body].kind = "malformed")
    => /\ tool_data # Pending => tool_data = None
       /\ test_tool_data # Pending => test_tool_data = None

C4_Witness ==
  /\ BothDone
  /\ HasOneBlock(shape)
  /\ shape.open = FenceJson
  /\ Bodies[shape.body].text = Braces(Key("action") \o Key("x"))
  /\ tool_data = None
  /\ test_tool_data = None

\* C5: whatever is returned as an invocation is a mapping with an action and
\* a parameters field; a block or bare text that parses to a list, a scalar or
\* an object lacking one of the fields gives None.
C5_OnlyValidInvocations ==
  /\ tool_data.t \notin {"pending", "None"} => ValidInvocation(tool_data)
  /\ test_tool_data.t \notin {"pending", "None"} => ValidInvocation(test_tool_data)
  /\ ((HasOneBlock(shape) \/ IsBare(shape))
        /\ Bodies[shape.body].kind \in {"partial", "nonobject"})
       => /\ tool_data # Pending => tool_data = None
          /\ test_tool_data # Pending => test_tool_data = None

C5_Witness ==
  /\ BothDone
  /\ IsJsonBlock(shape)
  /\ Bodies[shape.body].text = Braces(Member("action", Key("x")))
  /\ tool_data = None
  /\ test_tool_data = None

\* C6: a reply without fence marker whose trimmed text does not both start
\* with "{" and end with "}" gives None; the empty reply is such a reply.
C6_NoFenceNoBraces ==
  (~HasFence(llm_response) /\ ~BraceShaped(llm_response))
    => /\ tool_data # Pending => tool_data = None
       /\ test_tool_data # Pending => test_tool_data = None

C6_Witness ==
  /\ BothDone
  /\ llm_response = <<"x">> \o PlainInvText \o <<"x">>
  /\ tool_data = None
  /\ test_tool_data = None

----------------------------------------------------------------------------
(* Properties of the dispatcher *)

\* the fixed handler set of the dispatcher
FixedHandlerSet ==
  {"create_task", "query_tasks", "update_task_status", "delete_task",
   "delete_task_by_title", "delete_tasks_by_time_range", "create_event",
   "query_events", "update_event_status", "delete_event",
   "delete_event_by_summary", "delete_events_by_time_range",
   "generate_stock_report", "get_weather", "calculator", "send_email"}

Called(r) == r.ret.t # "pending"

NamesHandler(a, names) == a.t = "str" /\ \E h \in names : a.v = <<h>>

\* no handler entered, no configuration read, no external call made
Untouched(r) == r.trace = <<>>

NoLookupNoRequest(r) ==
  \A i \in 1..Len(r.trace) : r.trace[i] \notin External \cup {ConfigLookup}

\* the field is missing from the mapping or is the empty string
Blank(p, key) == <<key>> \notin DOMAIN p.v \/ (p.v[<<key>>].t = "str" /\ p.v[<<key>>].v = <<>>)

\* C7: an action outside the fixed handler set is answered with the
\* unknown-tool string carrying that action, whatever parameters is (a
\* mapping or not); no handler is entered, nothing external is called, and
\* the call does not raise.  The Toolkit of Test.py answers alike for every
\* action but its one handler.
C7_UnknownActionAnswered ==
  /\ (Called(tool_result) /\ ~NamesHandler(action, FixedHandlerSet))
       => /\ tool_result.ret.t = "string"
          /\ tool_result.ret.msg = "unknown_tool"
          /\ tool_result.ret.arg = <<action>>
          /\ Untouched(tool_result)
  /\ (Called(toolkit_result) /\ ~NamesHandler(action, {"send_qq_email"}))
       => /\ toolkit_result.ret.t = "string"
          /\ toolkit_result.ret.msg = "toolkit_unknown_tool"
          /\ toolkit_result.ret.arg = <<action>>
          /\ Untouched(toolkit_result)

C7_Witness ==
  /\ action.t = "str"
  /\ action.v = <<"unknown_tool_xyz">>
  /\ parameters.t = "num"
  /\ tool_result.ret.t = "string"
  /\ tool_result.ret.msg = "unknown_tool"
  /\ toolkit_result.ret.t = "string"
  /\ toolkit_result.ret.msg = "toolkit_unknown_tool"

C9_EmailNeedsAllFields ==
  /\ (Called(tool_result) /\ NamesHandler(action, {"send_email"}) /\ parameters.t = "obj"
        /\ (Blank(parameters, "to") \/ Blank(parameters, "subject") \/ Blank(parameters, "body")))
       => /\ tool_result.ret.t = "string"
          /\ tool_result.ret.msg = "email_fields_empty"
          /\ NoLookupNoRequest(tool_result)
  /\ (Called(toolkit_result) /\ NamesHandler(action, {"send_qq_email"}) /\ parameters.t = "obj"
        /\ toolkit_result.ret.t # "raise"
        /\ (Blank(parameters, "to") \/ Blank(parameters, "subject") \/ Blank(parameters, "body")))
       => /\ toolkit_result.ret.t = "string"
          /\ toolkit_result.ret.msg = "qq_fields_empty"
          /\ NoLookupNoRequest(toolkit_result)

C9_Witness ==
  /\ NamesHandler(action, {"send_email"})
  /\ parameters.t = "obj"
  /\ DOMAIN parameters.v = {<<"to">>, <<"subject">>, <<"body">>}
  /\ Blank(parameters, "to")
  /\ ~Blank(parameters, "subject") /\ parameters.v[<<"subject">>].t = "str"
  /\ ~Blank(parameters, "body") /\ parameters.v[<<"body">>].t = "str"
  /\ env.configured /\ env.outcome = "ok"
  /\ tool_result.ret.t = "string"
  /\ tool_result.ret.msg = "email_fields_empty"
  /\ tool_result.trace = <<"send_email">>

\* the record has the field
Carries(rec, field) == field \in DOMAIN rec.v

\* C11: for generate_stock_report call_tool always returns a structured
\* record carrying a success flag, a descriptive message and the binary
\* payload, the payload being None on failure, on the success path and on
\* the failure path alike.
C11_StockReportIsRecord ==
  (Called(tool_result) /\ NamesHandler(action, {"generate_stock_report"}))
    => /\ tool_result.ret.t = "record"
       /\ Carries(tool_result.ret, "success")
       /\ Carries(tool_result.ret, "message")
       /\ Carries(tool_result.ret, "pdf_binary")
       /\ (~tool_result.ret.v.success => tool_result.ret.v.pdf_binary = None)

----------------------------------------------------------------------------
(* The value of a well-formed expression, by the textbook rule: split at   *)
(* the last binary "+" or "-" outside parentheses, failing that at the     *)
(* last binary "*" or "/", failing that apply a leading "-", strip an      *)
(* enclosing pair of parentheses, or read a numeral without leading zeros. *)
(* A value is the fraction n/d; ok is FALSE where the text is not          *)
(* well-formed, divides by zero, or leaves the computed range.             *)

NoMeaning == [ok |-> FALSE, n |-> 0, d |-> 1]

Fraction(n, d) ==
  IF n > MaxMagnitude \/ -n > MaxMagnitude \/ d > MaxMagnitude \/ d < 1 THEN NoMeaning
  ELSE [ok |-> TRUE, n |-> n, d |-> d]

\* how many parentheses are open before position i
RECURSIVE DepthAt(_, _)
DepthAt(cs, i) ==
  IF i <= 1 THEN 0
  ELSE DepthAt(cs, i - 1)
       + (IF cs[i - 1] = "(" THEN 1 ELSE IF cs[i - 1] = ")" THEN -1 ELSE 0)

BinaryAt(cs, i, ops) ==
  /\ cs[i] \in ops
  /\ i > 1
  /\ cs[i - 1] \in Digits \cup {")"}
  /\ DepthAt(cs, i) = 0

\* position of the last binary operator of ops outside parentheses, or 0
LastBinary(cs, ops) ==
  LET at == {i \in 1..Len(cs) : BinaryAt(cs, i, ops)}
  IN IF at = {} THEN 0 ELSE CHOOSE i \in at : \A j \in at : j <= i

RECURSIVE Numeral(_)
Numeral(ds) ==
  IF Len(ds) = 1 THEN Fraction(DigitVal(ds[1]), 1)
  ELSE LET front == Numeral(SubSeq(ds, 1, Len(ds) - 1))
       IN IF ~front.ok THEN NoMeaning
          ELSE Fraction(10 * front.n + DigitVal(ds[Len(ds)]), 1)

Combine(op, l, r) ==
  IF ~l.ok \/ ~r.ok THEN NoMeaning
  ELSE IF op = "+" THEN Fraction(l.n * r.d + r.n * l.d, l.d * r.d)
  ELSE IF op = "-" THEN Fraction(l.n * r.d - r.n * l.d, l.d * r.d)
  ELSE IF op = "*" THEN Fraction(l.n * r.n, l.d * r.d)
  ELSE IF r.n = 0 THEN NoMeaning
  ELSE IF r.n > 0 THEN Fraction(l.n * r.d, l.d * r.n)
  ELSE Fraction(-(l.n * r.d), -(l.d * r.n))

RECURSIVE Meaning(_)
Meaning(cs) ==
  IF cs = <<>> THEN NoMeaning
  ELSE LET additive == LastBinary(cs, {"+", "-"})
           i == IF additive > 0 THEN additive ELSE LastBinary(cs, {"*", "/"})
       IN IF i > 0
          THEN Combine(cs[i], Meaning(SubSeq(cs, 1, i - 1)), Meaning(SubSeq(cs, i + 1, Len(cs))))
          ELSE IF cs[1] = "-"
          THEN LET m == Meaning(Tail(cs)) IN IF m.ok THEN Fraction(-m.n, m.d) ELSE NoMeaning
          ELSE IF cs[1] = "(" /\ cs[Len(cs)] = ")" /\ Len(cs) > 2
          THEN Meaning(SubSeq(cs, 2, Len(cs) - 1))
          ELSE IF (\A k \in 1..Len(cs) : cs[k] \in Digits) /\ (Len(cs) = 1 \/ cs[1] # "0")
          THEN Numeral(cs)
          ELSE NoMeaning

\* the expression text of a calculator invocation
Expression == parameters.v[<<"expression">>].v

CalcInvocation ==
  /\ NamesHandler(action, {"calculator"})
  /\ parameters.t = "obj"
  /\ <<"expression">> \in DOMAIN parameters.v
  /\ parameters.v[<<"expression">>].t = "str"

CalcChars == {"0", "1", "2", "3", "4", "5", "6", "7", "8", "9",
              "+", "-", "*", "/", "(", ")", ".", " "}

\* C27: calculator evaluates an expression only if each of its characters
\* is a digit, one of + - * / ( ) . or a space: an expression with another
\* character gives the unsupported-characters string, and an expression
\* whose evaluation fails (division by zero, malformed) gives the failure
\* string; the call returns a string and does not raise.
C27_CalculatorGuardsEval ==
  (Called(tool_result) /\ CalcInvocation /\ Expression # <<>>)
    => /\ tool_result.ret.t = "string"
       /\ (\E n \in DOMAIN Expression : Expression[n] \notin CalcChars)
            => tool_result.ret.msg = "unsupported_chars"
       /\ (\A n \in DOMAIN Expression : Expression[n] \in CalcChars)
            => tool_result.ret.msg \in {"calc_result", "calc_failed"}

C27_Witness ==
  /\ Called(tool_result)
  /\ CalcInvocation
  /\ \A n \in DOMAIN Expression : Expression[n] \in CalcChars
  /\ tool_result.ret.msg = "calc_failed"

\* an expression with another character was turned down
C27_WitnessUnsupported ==
  /\ Called(tool_result)
  /\ CalcInvocation
  /\ \E n \in DOMAIN Expression : Expression[n] \notin CalcChars
  /\ tool_result.ret.msg = "unsupported_chars"

----------------------------------------------------------------------------
(* Properties of one request *)

\* how often the call was made
Times(call, made) == Cardinality({n \in DOMAIN made : made[n] = call})

\* the Extractor returned an invocation
ReturnedInvocation(data) == data # Pending /\ Truthy(data)

C13_SeenFailure == ~(pc = "done" /\ calls = <<ChatCompletion>> /\ ~result.v.success)
C13_SeenNoInvocation == ~(pc = "done" /\ ~ReturnedInvocation(tool_data) /\ calls = <<ChatCompletion, ExtractCall>>)

----------------------------------------------------------------------------
(* Properties of the extractors: segments, and the two extractors compared *)

\* the segments between the fence markers, trimmed, the empty ones dropped
Segments(text) ==
  LET pieces == Split(text)
      trimmed == [n \in DOMAIN pieces |-> Trimmed(pieces[n])]
  IN SelectSeq(trimmed, LAMBDA seg : seg # <<>>)

Tagged(seg) == seg # <<>> /\ seg[1] \in {"json", "JSON"}

\* the segment begins with the json tag or is shaped as a single object
Qualifies(seg) == Tagged(seg) \/ (seg[1] = "{" /\ seg[Len(seg)] = "}")

\* the text of the first qualifying segment, without its tag
FirstQualifying(text) ==
  LET segs == Segments(text)
      first == CHOOSE n \in DOMAIN segs :
                 Qualifies(segs[n]) /\ \A m \in 1..(n - 1) : ~Qualifies(segs[m])
  IN IF Tagged(segs[first]) THEN Trimmed(SubSeq(segs[first], 2, Len(segs[first])))
     ELSE segs[first]

\* what the first qualifying segment alone gives: its invocation, or None
\* when it does not parse to one or when no segment qualifies
SegmentResult(text) ==
  IF \A n \in DOMAIN Segments(text) : ~Qualifies(Segments(text)[n]) THEN None
  ELSE LET value == json_loads(FirstQualifying(text))
       IN IF ValidInvocation(value) THEN value ELSE None

\* C24: on a reply with fence markers the Extractor looks at the first
\* segment that begins with the json tag or is shaped as a single object,
\* and at no other: the result is the invocation of that segment, or None
\* when it is no valid invocation, whatever later segments hold; segments
\* before it that qualify neither way are skipped.
C24_FirstQualifyingSegmentOnly ==
  (HasFence(llm_response) /\ tool_data # Pending)
    => tool_data = SegmentResult(llm_response)

\* the draft extractor of Test.py on the same replies
C24_DraftFirstQualifyingSegmentOnly ==
  (HasFence(llm_response) /\ test_tool_data # Pending)
    => test_tool_data = SegmentResult(llm_response)

\* C29 as stated: on a reply that is one closed json block both extractors
\* return the same result, the invocation when the block holds an object
\* with action and parameters and None otherwise.
C29_SameResultOnJsonBlock ==
  (IsJsonBlock(shape) /\ BothDone)
    => /\ tool_data = test_tool_data
       /\ tool_data = (IF Bodies[shape.body].kind = "invocation"
                       THEN Bodies[shape.body].val ELSE None)

\* C29 (amended): on a reply that is one closed json block both extractors
\* return the same result: the invocation when the block holds an object
\* with action and parameters whose text is free of the fence marker, and
\* None otherwise.
C29_SameResultOnJsonBlockCutAtFence ==
  (IsJsonBlock(shape) /\ BothDone)
    => /\ tool_data = test_tool_data
       /\ tool_data = (IF Bodies[shape.body].kind = "invocation"
                            /\ ~HasFence(Bodies[shape.body].text)
                       THEN Bodies[shape.body].val ELSE None)

C29_Witness ==
  /\ IsJsonBlock(shape)
  /\ BothDone
  /\ Bodies[shape.body].kind = "invocation"
  /\ Bodies[shape.body].text = Braces(Member("parameters", <<"{", "}">>) \o <<",">>
                                        \o Member("action", Key("x")))
  /\ shape.close = <<WS, FENCE>>
  /\ tool_data = PlainInv
  /\ test_tool_data = PlainInv

\* both extractors give None on a block cut short at a fence inside it
C29_WitnessCut ==
  /\ IsJsonBlock(shape)
  /\ BothDone
  /\ Bodies[shape.body].kind = "invocation"
  /\ HasFence(Bodies[shape.body].text)
  /\ tool_data = None
  /\ test_tool_data = None

----------------------------------------------------------------------------
(* Properties of the server *)

\* the places of message m in what was sent
Places(m) == {n \in DOMAIN sent : sent[n] = m}

\* the messages a background task sends
ReplyKinds == {"missing_key", "result", "empty", "error", "pdf_hint", "pdf_empty", "file_url"}

\* the places of the messages the background task of request i has sent
Replies(i) == {n \in DOMAIN sent : sent[n].req = i /\ sent[n].kind \in ReplyKinds}

\* the request carried the LLM command
IsLlm(i) == reqs[i].route.kind = "llm"

\* C14: for a webhook message with the LLM command prefix the
\* acknowledgement is sent before the background work is handed over, so it
\* precedes every message the background task sends for the request, and
\* the response is returned while the background work is still to be done.
C14_AckBeforeWork ==
  \A i \in DOMAIN reqs :
    /\ reqs[i].tpc # "none" =>
         /\ IsLlm(i)
         /\ Places(Message(i, "ack")) # {}
         /\ reqs[i].response = Processing
    /\ \A n \in Replies(i) : \E m \in Places(Message(i, "ack")) : m < n
    /\ (IsLlm(i) /\ reqs[i].hpc = "done") =>
         /\ Cardinality(Places(Message(i, "ack"))) = 1
         /\ reqs[i].tpc # "none"

C14_Witness ==
  \E i \in DOMAIN reqs :
    /\ IsLlm(i)
    /\ reqs[i].response = Processing
    /\ reqs[i].tpc = "done"
    /\ \E m \in Places(Message(i, "ack")), n \in Replies(i) : m < n

\* the messages that tell the user the result or the failure
FinalKinds == ReplyKinds \ {"pdf_hint"}

InFlight(i) == reqs[i].tpc \in {"queued", "running", "finally", "deleting"}

\* C16: an entry put into processing_tasks at the start of a background
\* task is gone when the task has completed or failed: a conversation
\* without a task under way has no entry, so that the map is empty once no
\* background task is running.
C16_EntryRemoved ==
  /\ \A c \in DOMAIN processing_tasks :
       \E i \in DOMAIN reqs : InFlight(i) /\ reqs[i].route.conversation_id = c
  /\ (\A i \in DOMAIN reqs : ~InFlight(i)) => DOMAIN processing_tasks = {}

C16_Witness ==
  /\ server = "main.py"
  /\ Len(reqs) = 2
  /\ \A i \in DOMAIN reqs : IsLlm(i) /\ reqs[i].tpc = "done"
  /\ reqs[1].route.conversation_id # reqs[2].route.conversation_id
  /\ DOMAIN processing_tasks = {}

\* C17: no access to processing_tasks fails, however insertion, test and
\* deletion at the end of a task and the iteration of the debug listing
\* interleave: no deletion finds its key gone and no iteration finds the
\* size of the map changed.
C17_NoAccessFails ==
  /\ \A i \in DOMAIN reqs : reqs[i].tpc # "failed"
  /\ listing # Raise("RuntimeError")

\* the task of request i inserted this entry
OwnEntry(i, entry) == IsLlm(i) /\ reqs[i].route.user_input = entry.user_input

\* the background task of request i completes in this step
Completes(i) == reqs[i].tpc \notin {"done", "failed"} /\ reqs'[i].tpc \in {"done", "failed"}

\* the listing labels a task stuck from 300 seconds on and running before
Labelled(tasks) ==
  \A c \in DOMAIN tasks :
    tasks[c].status = (IF tasks[c].duration_seconds >= 300 THEN "stuck" ELSE "running")

\* C18: no background task is cancelled, and an entry leaves
\* processing_tasks only in the step in which the task that inserted it
\* completes; the debug listing labels each tracked task stuck when its
\* duration has reached 300 seconds and running otherwise, and leaves the
\* map as it is.
C18_OnlyOwnCompletionRemoves ==
  [][/\ \A c \in DOMAIN processing_tasks \ DOMAIN processing_tasks' :
          \E i \in DOMAIN reqs : OwnEntry(i, processing_tasks[c]) /\ Completes(i)
     /\ \A i \in DOMAIN reqs : reqs[i].tpc \in {"done", "failed"} => Completes(i) \/ reqs'[i] = reqs[i]
     /\ (iteration.busy /\ iteration' # iteration /\ reqs' = reqs) => processing_tasks' = processing_tasks
     /\ listing'.t = "dict" => Labelled(listing'.v)]_vars

\* the body is a mapping whose text is a mapping with content
HasTextContent(body) ==
  /\ body.t = "obj"
  /\ <<"text">> \in DOMAIN body.v
  /\ body.v[<<"text">>].t = "obj"
  /\ <<"content">> \in DOMAIN body.v[<<"text">>].v

\* atUsers is there and is no list of mappings with a dingtalkId
OtherAtUsers(body) ==
  /\ body.t = "obj"
  /\ <<"atUsers">> \in DOMAIN body.v
  /\ LET users == body.v[<<"atUsers">>]
     IN \/ users.t # "arr"
        \/ \E n \in DOMAIN users.v :
             users.v[n].t # "obj" \/ <<"dingtalkId">> \notin DOMAIN users.v[n].v

\* C19: a POST whose body has not the text.content shape, or whose atUsers
\* is of another shape, is accepted and ignored: the response is the
\* success response, no message is sent for it and no background task is
\* started.
C19_OtherShapeIgnored ==
  \A i \in DOMAIN reqs :
    (reqs[i].hpc = "done" /\ (~HasTextContent(reqs[i].body) \/ OtherAtUsers(reqs[i].body))) =>
      /\ reqs[i].response = Success
      /\ \A n \in DOMAIN sent : sent[n].req # i
      /\ reqs[i].tpc = "none"

\* the background task of request i is about to send its reply
AboutToReply(i) ==
  \/ server = "main.py" /\ reqs[i].tpc = "running"
  \/ server = "app.py" /\ reqs[i].tpc \in {"send_" \o kind : kind \in FinalKinds}

\* C20: nothing orders the background tasks of one conversation: whenever
\* the task of a later LLM message is about to reply, it can do so at once,
\* whether the tasks of the earlier messages of the conversation have
\* replied or not; so the reply to m2 can be sent before the reply to m1.
C20_NoOrderInConversation ==
  \A i \in DOMAIN reqs :
    (IsLlm(i) /\ AboutToReply(i) /\ LoopFree) => ENABLED Background(i)

\* the reply to the second message of a conversation is out, the reply to
\* the first is not
C20_Witness ==
  /\ Len(reqs) = 2
  /\ IsLlm(1) /\ IsLlm(2)
  /\ reqs[1].route.conversation_id = reqs[2].route.conversation_id
  /\ Places(Message(1, "ack")) # {} /\ Places(Message(2, "ack")) # {}
  /\ \A m \in Places(Message(1, "ack")), n \in Places(Message(2, "ack")) : m < n
  /\ Replies(1) = {}
  /\ \E n \in Replies(2) : sent[n].kind \in FinalKinds

\* C21: the chat-completion call is made in the background task only: for
\* no webhook message does the handler make it before the response is
\* returned, and a message that leads to a chat-completion call has been
\* acknowledged before the call.
C21_CompletionOnlyInBackground ==
  \A i \in DOMAIN reqs :
    /\ \A n \in DOMAIN reqs[i].completions : reqs[i].completions[n] = "task"
    /\ reqs[i].completions # <<>> => Places(Message(i, "ack")) # {}

\* the background task of request i is inside the chat-completion call or
\* the call of a handler
Waiting(i) == reqs[i].tpc = "completing"

\* C22: while a background task waits for the chat-completion call or for
\* a handler's call, the server still takes and handles other requests: a
\* webhook whose body has arrived is routed, an acknowledgement or a
\* command reply that is due is sent, and the debug listing is served.
C22_WaitDoesNotBlock ==
  \A i \in DOMAIN reqs :
    (Waiting(i) /\ ~iteration.busy) =>
      /\ \A j \in DOMAIN reqs \ {i} :
           /\ reqs[j].hpc = "json" => ENABLED WebhookRoute(j)
           /\ reqs[j].hpc = "send_ack" => ENABLED WebhookAck(j)
           /\ reqs[j].hpc = "send_command" => ENABLED WebhookCommand(j)
      /\ Len(reqs) < MaxRequests => ENABLED WebhookPost
      /\ listing = Pending => ENABLED DebugTasks

\* the background task of request i has started and not reached its end
Running(i) ==
  \/ server = "main.py" /\ reqs[i].tpc = "running"
  \/ server = "app.py" /\ reqs[i].tpc \notin {"none", "created", "done"}

\* C23: while a background LLM task of conversation c is running,
\* processing_tasks holds an entry for c, so that the count of /health and
\* the listing of /debug/tasks include every running task.
C23_RunningTaskTracked ==
  \A i \in DOMAIN reqs :
    Running(i) => reqs[i].route.conversation_id \in DOMAIN processing_tasks

----------------------------------------------------------------------------
(* Properties of the deleting tools *)

\* the keyword a call ran with: the parameter, or "" when it is missing
KeywordOf(call) ==
  Get(call.parameters,
      IF call.action = "delete_task_by_title" THEN "title_keyword" ELSE "summary",
      StrV(<<>>))

\* C25: dispatching delete_task_by_title or delete_event_by_summary with the
\* keyword missing or empty deletes no task and no event
C25_EmptyKeywordDeletesNothing ==
  (/\ store_call # Pending
   /\ store_call.action \in {"delete_task_by_title", "delete_event_by_summary"}
   /\ KeywordOf(store_call) = StrV(<<>>))
    => (task_store = store_call.tasks /\ event_store = store_call.events)

\* the day a task with a due date is due on, in local time
DueDay(task) == DayOf(astimezone(task.due.v))

\* the call was delete_tasks_by_time_range from day a through day b, both
\* given as date texts, over all tasks, and the list request went through
RangeCall(a, b) ==
  /\ store_call # Pending
  /\ store_call.action = "delete_tasks_by_time_range"
  /\ Get(store_call.parameters, "start_date", None) = DateStr(a)
  /\ Get(store_call.parameters, "end_date", None) = DateStr(b)
  /\ Truthy(Get(store_call.parameters, "show_completed", BoolV(TRUE)))
  /\ store_call.request = "ok"

\* the tasks the call removed
Removed == DOMAIN store_call.tasks \ DOMAIN task_store

\* the tasks due on a day from a through b
DueWithin(a, b) ==
  {id \in DOMAIN store_call.tasks :
     /\ store_call.tasks[id].due # None
     /\ a <= DueDay(store_call.tasks[id])
     /\ DueDay(store_call.tasks[id]) <= b}

\* C26: delete_tasks_by_time_range with two date texts deletes the tasks due
\* on a day from the start day through the end day, both included, those
\* whose delete request failed left aside, never a task without a due date,
\* and reports the number of tasks it deleted
C26_RangeDeletesBothDaysIncluded ==
  \A a, b \in Days :
    RangeCall(a, b) =>
      /\ Removed = DueWithin(a, b) \ store_call.failing
      /\ \A id \in Removed : store_call.tasks[id].due # None
      /\ "deleted_count" \in DOMAIN store_call.result
           => store_call.result.deleted_count = Cardinality(Removed)

\* what the code does instead: the end day is left out
RangeEndDayExcluded ==
  \A a, b \in Days :
    RangeCall(a, b) =>
      /\ Removed = DueWithin(a, b - 1) \ store_call.failing
      /\ "deleted_count" \in DOMAIN store_call.result
           => store_call.result.deleted_count = Cardinality(Removed)

----------------------------------------------------------------------------
(* Properties of AgentMemory *)

\* the newest k items of a list, in their order
Newest(list, k) == [i \in 1..k |-> list[Len(list) - k + i]]

Least(a, b) == IF a <= b THEN a ELSE b

\* C28: history holds at most max_history messages and is the newest
\* min(n, max_history) of the n messages added, in their order; get_messages
\* returns the system prompt followed by exactly that history
C28_HistoryIsNewestWindow ==
  /\ Len(history) <= max_history
  /\ history = Newest(added, Least(Len(added), max_history))
  /\ messages # Pending =>
       /\ Head(messages.v) = SystemMessage
       /\ Tail(messages.v) = Newest(added, Least(Len(added), max_history))

\* more messages added than the default size holds, and the list read
C28_Witness ==
  /\ max_history = DefaultMaxHistory
  /\ Len(added) > max_history
  /\ added[1] # added[Len(added) - max_history + 1]
  /\ messages # Pending

----------------------------------------------------------------------------
(* Properties of send_official_message *)

\* the call has returned
Sent == send_result # Pending

\* the POST was issued
Posted == \E n \in DOMAIN send_result.trace : send_result.trace[n] = "requests.post"

\* the robot access token or the robot secret is unset
Unconfigured == send_env.token = None \/ send_env.secret = None

\* C30: send_official_message never raises, returns False without the POST
\* when the token or the secret is unset, and returns True only when the
\* POST answered with status 200 and errcode 0
C30_SendNeverRaises ==
  Sent =>
    /\ send_result.ret \in {BoolV(TRUE), BoolV(FALSE)}
    /\ Unconfigured => (send_result.ret = BoolV(FALSE) /\ ~Posted)
    /\ send_result.ret = BoolV(TRUE) =>
         /\ Posted
         /\ ~IsRaise(send_env.post)
         /\ send_env.post.status_code = 200
         /\ send_env.post.body = ObjV(<<"errcode">> :> NumV(0))

\* the POST raised and the call returned False
C30_Witness ==
  /\ Sent
  /\ IsRaise(send_env.post)
  /\ Posted
  /\ send_result.ret = BoolV(FALSE)

\* app.py with ROBOT_SECRET unset: the signature raises, no POST
C30_WitnessUnsigned ==
  /\ Sent
  /\ send_env.server = "app.py"
  /\ send_env.ROBOT_SECRET = None
  /\ Truthy(send_env.token) /\ Truthy(send_env.secret)
  /\ ~Posted
  /\ send_result.ret = BoolV(FALSE)

\* a message delivered
C30_WitnessDelivered == Sent /\ send_result.ret = BoolV(TRUE)
====
